---- MODULE Spec2Model ----
(***************************************************************************)
(* A model of the two core components of the Universal Project Builder:    *)
(*   - FileOrganizer  (src/unnamed/part_002)                                 *)
(*   - CodeExtractor  (src/js/core/UIManager.js)                             *)
(* Strings are TLA+ strings, operated on character by character as the     *)
(* JavaScript does; records are JavaScript objects; a JavaScript object    *)
(* used as a map is the sequence of its <<key, value>> entries, in         *)
(* insertion order (the order Object.entries walks).                       *)
(***************************************************************************)
EXTENDS Integers, Sequences, FiniteSets, TLC

VARIABLES
    files,              \* FileOrganizer.files: the working set
    config,             \* FileOrganizer.config
    organizationLog,    \* FileOrganizer.organizationLog
    validationResults,  \* FileOrganizer.validationResults
    organizationReport, \* FileOrganizer.organizationReport
    idCounter,          \* number of identifiers generateId has produced so far
    run,                \* the organizeFiles call in progress, if any
    before,             \* the working set as it was when the last organizeFiles call started
    previous,           \* the call before the last one: the working set it started from,
                        \* the log it left, whether it returned
    pending,            \* the organizeFiles calls suspended at an await, first the one
                        \* that resumes first
    outcome,            \* how the last loadConfig and the last organizeFiles call ended, and
                        \* whether the last organizeFiles call to return ran the validation
    runs,               \* number of organizeFiles calls made so far
    inFiles,            \* the caller's file list (argument of loadFiles)
    inConfig,           \* the caller's configuration (argument of loadConfig)
    consoleWarnings,    \* what the last organizeFiles call wrote with console.warn
    extractedFiles,     \* CodeExtractor.extractedFiles
    stats,              \* CodeExtractor.stats
    fileIds,            \* number of identifiers generateFileId has produced so far
    extractions,        \* number of extractFiles calls made so far
    extractInput,       \* the text and options the caller passes to extractFiles
    extractOutcome,     \* how the last extractFiles call ended, and what it returned
    contentCall,        \* a direct call of splitFileContent or mergeFileContents: its arguments
    contentResult,      \* what that call returned
    app                 \* UniversalProjectBuilder: its state, the workflow that
                        \* generateProject is running and the step it is at

orgVars == <<files, config, organizationLog, validationResults, organizationReport,
             idCounter, run, before, previous, pending, outcome, runs, inFiles, inConfig,
             consoleWarnings>>
extVars == <<extractedFiles, stats, fileIds, extractions, extractInput, extractOutcome>>
contentVars == <<contentCall, contentResult>>
appVars == <<app>>
vars == <<files, config, organizationLog, validationResults, organizationReport,
          idCounter, run, before, previous, pending, outcome, runs, inFiles, inConfig,
          consoleWarnings,
          extractedFiles, stats, fileIds, extractions, extractInput, extractOutcome,
          contentCall, contentResult, app>>

(***************************************************************************)
(* Bounds of the model.                                                    *)
(***************************************************************************)
MaxRuns == 1        \* organizeFiles calls in one behaviour
MaxSections == 2    \* operation sections in one configuration
MaxFiles == 2       \* files in the list passed to loadFiles
MaxLines == 4       \* lines in one pasted text
MaxExtractions == 1 \* extractFiles calls in one behaviour
MaxSourceLines == 2 \* lines in a source passed to mergeFileContents
MaxSources == 2     \* sources in one mergeFileContents call
MaxLinesPerFile == 3 \* linesPerFile of a splitFileContent call
MaxSplitLines == 5  \* lines in a source passed to splitFileContent
MaxReruns == 2      \* organizeFiles calls in one behaviour of repeated calls
MaxReextractions == 2 \* extractFiles calls in one behaviour of repeated calls
MaxRetryLines == 2  \* lines in the pasted text of repeated calls
MaxGenerations == 1 \* generateProject calls in one behaviour

(***************************************************************************)
(* JavaScript values and string primitives.                                *)
(***************************************************************************)
Undefined == "<undefined>"
Null == "<null>"

Min(a, b) == IF a < b THEN a ELSE b
Max(a, b) == IF a > b THEN a ELSE b

CharAt(s, i) == SubSeq(s, i, i)

\* String.prototype.substring(a, b), 0-based, end exclusive, arguments clamped and swapped
Substring(s, a, b) ==
    LET ca == Max(0, Min(a, Len(s)))
        cb == Max(0, Min(b, Len(s)))
    IN  SubSeq(s, Min(ca, cb) + 1, Max(ca, cb))

StartsWith(s, p) == Len(s) >= Len(p) /\ SubSeq(s, 1, Len(p)) = p
EndsWith(s, p) == Len(s) >= Len(p) /\ SubSeq(s, Len(s) - Len(p) + 1, Len(s)) = p
Includes(s, p) == \E i \in 1..(Len(s) - Len(p) + 1) : SubSeq(s, i, i + Len(p) - 1) = p

\* String.prototype.indexOf / lastIndexOf, 0-based, -1 when absent
IndexOfFrom(s, p, from) ==
    LET hits == {i \in (from + 1)..(Len(s) - Len(p) + 1) : SubSeq(s, i, i + Len(p) - 1) = p}
    IN  IF hits = {} THEN -1 ELSE (CHOOSE i \in hits : \A j \in hits : i <= j) - 1
IndexOf(s, p) == IndexOfFrom(s, p, 0)
LastIndexOf(s, p) ==
    LET hits == {i \in 1..(Len(s) - Len(p) + 1) : SubSeq(s, i, i + Len(p) - 1) = p}
    IN  IF hits = {} THEN -1 ELSE (CHOOSE i \in hits : \A j \in hits : i >= j) - 1

UpperCase == <<"A","B","C","D","E","F","G","H","I","J","K","L","M",
               "N","O","P","Q","R","S","T","U","V","W","X","Y","Z">>
LowerCase == <<"a","b","c","d","e","f","g","h","i","j","k","l","m",
               "n","o","p","q","r","s","t","u","v","w","x","y","z">>
Digits == {"0","1","2","3","4","5","6","7","8","9"}
IsUpper(c) == \E i \in 1..26 : UpperCase[i] = c
IsLower(c) == \E i \in 1..26 : LowerCase[i] = c
IsAlpha(c) == IsUpper(c) \/ IsLower(c)
IsDigit(c) == c \in Digits
IsWordChar(c) == IsAlpha(c) \/ IsDigit(c) \/ c = "_"
IsSpace(c) == c \in {" ", "\n", "\t", "\r"}
LowerChar(c) == IF IsUpper(c) THEN LowerCase[CHOOSE i \in 1..26 : UpperCase[i] = c] ELSE c

RECURSIVE ToLowerCase(_)
ToLowerCase(s) == IF Len(s) = 0 THEN "" ELSE LowerChar(CharAt(s, 1)) \o ToLowerCase(SubSeq(s, 2, Len(s)))

\* String.prototype.trim
RECURSIVE TrimStart(_)
TrimStart(s) == IF Len(s) > 0 /\ IsSpace(CharAt(s, 1)) THEN TrimStart(SubSeq(s, 2, Len(s))) ELSE s
RECURSIVE TrimEnd(_)
TrimEnd(s) == IF Len(s) > 0 /\ IsSpace(CharAt(s, Len(s))) THEN TrimEnd(SubSeq(s, 1, Len(s) - 1)) ELSE s
Trim(s) == TrimEnd(TrimStart(s))

\* String.prototype.split(sep) for a non-empty separator
RECURSIVE Split(_, _)
Split(s, sep) ==
    LET At(i) == IF i = -1 THEN <<s>>
                 ELSE <<SubSeq(s, 1, i)>> \o Split(SubSeq(s, i + Len(sep) + 1, Len(s)), sep)
    IN  At(IndexOf(s, sep))

\* Array.prototype.join(sep)
RECURSIVE Join(_, _)
Join(parts, sep) ==
    IF Len(parts) = 0 THEN ""
    ELSE IF Len(parts) = 1 THEN parts[1]
    ELSE parts[1] \o sep \o Join(Tail(parts), sep)

\* String.prototype.replace(find, rep) with a literal pattern and the g flag
RECURSIVE ReplaceAll(_, _, _)
ReplaceAll(s, find, rep) ==
    LET At(i) == IF Len(find) = 0 \/ i = -1 THEN s
                 ELSE SubSeq(s, 1, i) \o rep
                      \o ReplaceAll(SubSeq(s, i + Len(find) + 1, Len(s)), find, rep)
    IN  At(IndexOf(s, find))

Range(s) == {s[i] : i \in 1..Len(s)}

(***************************************************************************)
(* JavaScript objects used as maps: sequences of <<key, value>> entries.   *)
(***************************************************************************)
HasKey(obj, k) == \E i \in 1..Len(obj) : obj[i][1] = k
Get(obj, k) == obj[CHOOSE i \in 1..Len(obj) : obj[i][1] = k][2]

\* a value of a configuration key: an object (with its entries), an array or a string
Obj(entries) == [kind |-> "object", entries |-> entries]
Arr(items) == [kind |-> "array", items |-> items]
Str(value) == [kind |-> "string", value |-> value]

Truthy(v) == IF v.kind = "string" THEN v.value # "" ELSE TRUE
TypeofObject(v) == v.kind \in {"object", "array"}

\* Object.entries(v)
ObjectEntries(v) ==
    IF v.kind = "object" THEN v.entries
    ELSE IF v.kind = "array" THEN [i \in 1..Len(v.items) |-> <<ToString(i - 1), v.items[i]>>]
    ELSE [i \in 1..Len(v.value) |-> <<ToString(i - 1), Str(CharAt(v.value, i))>>]

(***************************************************************************)
(* FileOrganizer: helpers.                                                 *)
(***************************************************************************)
\* findFileByName: the index of the first record that carries the name, 0 when none does
FindFileByNameOrPath(fs, fileName) ==
    LET hits == {i \in 1..Len(fs) : \/ fs[i].fileName = fileName
                                     \/ fs[i].currentPath = fileName}
    IN  IF hits = {} THEN 0 ELSE CHOOSE i \in hits : \A j \in hits : i <= j
FindFileByName(fs, fileName) ==
    LET hits == {i \in 1..Len(fs) : \/ fs[i].fileName = fileName
                                     \/ fs[i].originalPath = fileName
                                     \/ fs[i].currentPath = fileName}
    IN  IF hits = {} THEN 0 ELSE CHOOSE i \in hits : \A j \in hits : i <= j

\* joinPath
JoinPath(folderPath, fileName) ==
    IF folderPath = Undefined \/ folderPath = "" THEN fileName
    ELSE IF EndsWith(folderPath, "/") THEN folderPath \o fileName
    ELSE folderPath \o "/" \o fileName

\* getFileExtension
GetFileExtension(fileName) ==
    IF Includes(fileName, ".")
    THEN LET parts == Split(fileName, ".") IN ToLowerCase(parts[Len(parts)])
    ELSE "txt"

\* generateId: 'file_' + Date.now() + '_' + nine random characters; the model numbers
\* the identifiers, so that every call returns a fresh one
GenerateId(n) == "file_" \o ToString(n)

\* new Blob([content]).size for ASCII content
BlobSize(content) == Len(content)

\* content.split('\n').length
LineCount(content) == Len(Split(content, "\n"))

\* fileName.replace(/\.[^.]+$/, ''): drops the last dot and what follows, when something follows
StripExtension(fileName) ==
    LET i == LastIndexOf(fileName, ".")
    IN  IF i = -1 \/ i = Len(fileName) - 1 THEN fileName ELSE Substring(fileName, 0, i)

\* logOperation; st is the Organizer's mutable state during a call:
\* [files, log, idc] (this.files, this.organizationLog, identifiers generated)
LogOperation(st, operation, dryRun) ==
    [st EXCEPT !.log = Append(@, operation @@ [dryRun |-> dryRun, id |-> GenerateId(st.idc + 1)]),
               !.idc = @ + 1]

(***************************************************************************)
(* Regular expressions of the Organizer, matched as the engine does:       *)
(* leftmost match, greedy quantifiers.                                     *)
(***************************************************************************)
StartsAt(s, i, p) == i >= 1 /\ i + Len(p) - 1 <= Len(s) /\ SubSeq(s, i, i + Len(p) - 1) = p

\* character classes of the patterns
InClass(c, class) ==
    CASE class = "\\s" -> IsSpace(c)
      [] class = "\\w" -> IsWordChar(c)
      [] class = "[a-zA-Z0-9_.]" -> IsAlpha(c) \/ IsDigit(c) \/ c \in {"_", "."}
      [] class = "[^;]" -> c # ";"
      [] class = "[^{]" -> c # "{"
      [] class = "[^.]" -> c # "."
      [] class = "[\\w-]" -> IsWordChar(c) \/ c = "-"

\* the first position >= i whose character is not in the class (Len(s) + 1 when none)
RECURSIVE SpanEnd(_, _, _)
SpanEnd(s, i, class) == IF i <= Len(s) /\ InClass(CharAt(s, i), class) THEN SpanEnd(s, i + 1, class) ELSE i

\* the least element of a non-empty set of positions
First(positions) == CHOOSE i \in positions : \A j \in positions : i <= j

\* /package\s+[a-zA-Z][a-zA-Z0-9_.]*/ at position i: the position after the match, 0 for no match
PackageNameMatchAt(s, i) ==
    LET AfterSpaces(a, b) ==
            IF StartsAt(s, i, "package") /\ b > a /\ b <= Len(s) /\ IsAlpha(CharAt(s, b))
            THEN SpanEnd(s, b + 1, "[a-zA-Z0-9_.]")
            ELSE 0
    IN  AfterSpaces(i + 7, SpanEnd(s, i + 7, "\\s"))

\* content.replace(/package\s+[a-zA-Z][a-zA-Z0-9_.]*/, replacement): the first match only
ReplacePackageName(s, replacement) ==
    LET ReplaceAt(i) == SubSeq(s, 1, i - 1) \o replacement \o SubSeq(s, PackageNameMatchAt(s, i), Len(s))
        ReplaceFirst(hits) == IF hits = {} THEN s ELSE ReplaceAt(First(hits))
    IN  ReplaceFirst({i \in 1..Len(s) : PackageNameMatchAt(s, i) # 0})

\* /<word>\s+[^;]+;?/ at position i (word is "package" or "import"): the position after
\* the match, 0 for no match. \s+ gives back a character when [^;]+ would find none.
DeclMatchAt(s, i, word) ==
    LET Match(a, b, c) ==
            IF ~(StartsAt(s, i, word) /\ b > a) THEN 0
            ELSE IF c > b THEN (IF c <= Len(s) THEN c + 1 ELSE c)
            ELSE IF b - a >= 2 THEN (IF b <= Len(s) THEN b + 1 ELSE b)
            ELSE 0
        AfterSpaces(a, b) == Match(a, b, SpanEnd(s, b, "[^;]"))
    IN  AfterSpaces(i + Len(word), SpanEnd(s, i + Len(word), "\\s"))

\* the matches of /<word>\s+[^;]+;?/g from position i on, as <<start, end>> pairs
RECURSIVE DeclMatches(_, _, _)
DeclMatches(s, i, word) ==
    LET Rest(e) == DeclMatches(s, IF e = 0 THEN i + 1 ELSE e, word)
        From(e) == IF e = 0 THEN Rest(e) ELSE <<<<i, e>>>> \o Rest(e)
    IN  IF i > Len(s) THEN <<>> ELSE From(DeclMatchAt(s, i, word))

\* the texts of a list of <<start, end>> matches
MatchTexts(s, ms) == [k \in 1..Len(ms) |-> SubSeq(s, ms[k][1], ms[k][2] - 1)]

\* content.match(/package\s+[^;]+;?/)?.[0] || ''
PackageDeclaration(s) ==
    LET FirstText(texts) == IF Len(texts) = 0 THEN "" ELSE texts[1]
    IN  FirstText(MatchTexts(s, DeclMatches(s, 1, "package")))

\* content.match(/import\s+[^;]+;?/g) || []
ImportDeclarations(s) == MatchTexts(s, DeclMatches(s, 1, "import"))

\* /<word>\s+[^;]+;?\s*/ removed: once (all = FALSE) or everywhere (the g flag)
RECURSIVE RemoveDecls(_, _, _, _)
RemoveDecls(s, i, word, all) ==
    LET Rest(e) == RemoveDecls(s, IF e = 0 THEN i + 1 ELSE SpanEnd(s, e, "\\s"), word, all)
        From(e) == IF e = 0 THEN CharAt(s, i) \o Rest(e)
                   ELSE IF all THEN Rest(e)
                   ELSE SubSeq(s, SpanEnd(s, e, "\\s"), Len(s))
    IN  IF i > Len(s) THEN "" ELSE From(DeclMatchAt(s, i, word))

\* Array.from(new Set(items)): first occurrences, in order
RECURSIVE Unique(_)
Unique(items) ==
    LET AddLast(rest, last) == IF last \in Range(rest) THEN rest ELSE Append(rest, last)
    IN  IF Len(items) = 0 THEN <<>>
        ELSE AddLast(Unique(SubSeq(items, 1, Len(items) - 1)), items[Len(items)])

NonEmptyString(x) == x # ""

(***************************************************************************)
(* FileOrganizer: the records of the working set.  A field that the        *)
(* JavaScript object does not have reads as undefined (FALSE for a flag).  *)
(***************************************************************************)
AbsentFields ==
    [originalPath |-> Undefined, folderPath |-> Undefined,
     isCopy |-> FALSE, originalFileId |-> Undefined,
     isMerged |-> FALSE, sourceFileIds |-> <<>>,
     isSplit |-> FALSE, sourceFileId |-> Undefined]

\* a field of a JavaScript object that may not have it
Field(o, k) == IF k \in DOMAIN o THEN o[k] ELSE Undefined
Falsy(x) == x = Undefined \/ x = ""

\* loadFiles: the record made of one input file
LoadedRecord(file, id) ==
    [id |-> id, originalPath |-> file.fileName, currentPath |-> file.fileName,
     operations |-> <<>>, status |-> "pending"] @@ file @@ AbsentFields

(***************************************************************************)
(* FileOrganizer: one rule of each operation type.  st is the Organizer's  *)
(* mutable state during a call: [files, log, idc, threw, warned].           *)
(***************************************************************************)
\* applyFileRenames, one entry [oldName, newName]
ApplyFileRenameUnguarded(st, rule, dryRun) ==
    LET i == FindFileByName(st.files, rule[1])
    IN  IF i = 0 THEN [st EXCEPT !.warned = Append(@, "File not found for rename: " \o rule[1])]
        ELSE LET file == st.files[i]
                 operation == [type |-> "rename", from |-> file.currentPath, to |-> rule[2]]
                 renamed == [file EXCEPT !.fileName = rule[2],
                                         !.currentPath = rule[2],
                                         !.operations = Append(@, operation),
                                         !.status = "renamed"]
             IN  LogOperation([st EXCEPT !.files[i] = renamed], operation, dryRun)
ApplyFileRename(st, rule, dryRun) ==
    LET i == FindFileByName(st.files, rule[1])
    IN  IF i = 0 THEN [st EXCEPT !.warned = Append(@, "File not found for rename: " \o rule[1])]
        ELSE LET file == st.files[i]
                 operation == [type |-> "rename", from |-> file.currentPath, to |-> rule[2]]
                 renamed == [file EXCEPT !.fileName = rule[2],
                                         !.currentPath = rule[2],
                                         !.operations = Append(@, operation),
                                         !.status = "renamed"]
                 st1 == IF dryRun THEN st ELSE [st EXCEPT !.files[i] = renamed]
             IN  LogOperation(st1, operation, dryRun)

\* applyExtensionChanges, one entry [fileName, newExtension]
ApplyExtensionChange(st, rule, dryRun) ==
    LET i == FindFileByName(st.files, rule[1])
    IN  IF i = 0 THEN st
        ELSE LET file == st.files[i]
                 baseName == Substring(rule[1], 0, LastIndexOf(rule[1], "."))
                 newFileName == baseName \o "." \o rule[2]
                 operation == [type |-> "changeExtension", from |-> file.currentPath,
                               to |-> newFileName, oldExtension |-> file.extension,
                               newExtension |-> rule[2]]
                 changed == [file EXCEPT !.fileName = newFileName,
                                         !.currentPath = newFileName,
                                         !.extension = rule[2],
                                         !.operations = Append(@, operation),
                                         !.status = "extension_changed"]
                 st1 == IF dryRun THEN st ELSE [st EXCEPT !.files[i] = changed]
             IN  LogOperation(st1, operation, dryRun)

\* applyFolderMappings, one entry [fileName, folderPath]
ApplyFolderMapping(st, rule, dryRun) ==
    LET i == FindFileByName(st.files, rule[1])
    IN  IF i = 0 THEN st
        ELSE LET file == st.files[i]
                 newPath == JoinPath(rule[2], file.fileName)
                 operation == [type |-> "move", from |-> file.currentPath, to |-> newPath,
                               folder |-> rule[2]]
                 moved == [file EXCEPT !.currentPath = newPath,
                                       !.folderPath = rule[2],
                                       !.operations = Append(@, operation),
                                       !.status = "moved"]
                 st1 == IF dryRun THEN st ELSE [st EXCEPT !.files[i] = moved]
             IN  LogOperation(st1, operation, dryRun)

\* updates.replacements.forEach: new RegExp(find, 'g') with a find string that holds no
\* metacharacter
RECURSIVE ApplyReplacements(_, _)
ApplyReplacements(content, replacements) ==
    IF Len(replacements) = 0 THEN content
    ELSE ApplyReplacements(ReplaceAll(content, replacements[1].find, replacements[1].replace),
                           Tail(replacements))

\* imports.map(imp => `import ${imp};`).join('\n')
ImportLines(imports) == Join([k \in 1..Len(imports) |-> "import " \o imports[k] \o ";"], "\n")

\* applyContentUpdates: the three updates of the content, in the order of the code
WithReplacements(content, updates) ==
    IF "replacements" \in DOMAIN updates
    THEN ApplyReplacements(content, updates.replacements) ELSE content
WithAddedImports(content, updates) ==
    IF "addImports" \in DOMAIN updates
    THEN ImportLines(updates.addImports) \o "\n\n" \o content ELSE content
WithUpdatedPackage(content, updates) ==
    IF ~Falsy(Field(updates, "updatePackage"))
    THEN ReplacePackageName(content, "package " \o updates.updatePackage) ELSE content
UpdatedContent(content, updates) ==
    WithUpdatedPackage(WithAddedImports(WithReplacements(content, updates), updates), updates)

\* applyContentUpdates, one entry [fileName, updates]
ApplyContentUpdate(st, rule, dryRun) ==
    LET Operation(file, newContent) ==
            [type |-> "updateContent", file |-> rule[1], changes |-> rule[2],
             sizeBefore |-> Len(file.content), sizeAfter |-> Len(newContent)]
        Updated(file, newContent) ==
            [file EXCEPT !.content = newContent,
                         !.size = BlobSize(newContent),
                         !.operations = Append(@, Operation(file, newContent)),
                         !.status = "content_updated"]
        Update(i, newContent) ==
            LogOperation(IF dryRun THEN st
                         ELSE [st EXCEPT !.files[i] = Updated(st.files[i], newContent)],
                         Operation(st.files[i], newContent), dryRun)
        At(i) == IF i = 0 THEN st ELSE Update(i, UpdatedContent(st.files[i].content, rule[2]))
    IN  At(FindFileByName(st.files, rule[1]))

\* content.replace(new RegExp(`class\\s+${oldClassName}`, 'g'), replacement), for a class
\* name that holds no metacharacter
RECURSIVE ReplaceClassToken(_, _, _, _)
ReplaceClassToken(s, i, oldClassName, replacement) ==
    LET Matches(b) == StartsAt(s, i, "class") /\ b > i + 5 /\ StartsAt(s, b, oldClassName)
        From(b) ==
            (IF Matches(b) THEN replacement ELSE CharAt(s, i))
            \o ReplaceClassToken(s, IF Matches(b) THEN b + Len(oldClassName) ELSE i + 1,
                                 oldClassName, replacement)
    IN  IF i > Len(s) THEN "" ELSE From(SpanEnd(s, i + 5, "\\s"))

\* applyModificationsToCopy: the three modifications of the content, in the order of the code
WithPackageName(content, modifications) ==
    IF ~Falsy(Field(modifications, "packageName"))
    THEN ReplacePackageName(content, "package " \o modifications.packageName) ELSE content
WithClassName(content, fileName, modifications) ==
    IF ~Falsy(Field(modifications, "className"))
    THEN ReplaceClassToken(content, 1, StripExtension(fileName), "class " \o modifications.className)
    ELSE content
WithImports(content, modifications) ==
    IF "imports" \in DOMAIN modifications
    THEN ImportLines(modifications.imports) \o "\n\n" \o content ELSE content
ApplyModificationsToCopy(fileCopy, modifications) ==
    [fileCopy EXCEPT !.content =
        WithImports(WithClassName(WithPackageName(fileCopy.content, modifications),
                                  fileCopy.fileName, modifications), modifications)]

\* applyCopyToMultipleLocations: one destination, locations[index + 1]
ApplyCopyLocation(st, fileName, originalFile, location, index, dryRun) ==
    LET copyId == originalFile.id \o "_copy_" \o ToString(index)
        name == IF Falsy(Field(location, "name")) THEN fileName ELSE location.name
        Operation(copyPath) ==
            [type |-> "copy", originalFile |-> fileName, copyPath |-> copyPath, copyId |-> copyId]
        FileCopy(copyPath) ==
            [originalFile EXCEPT !.id = copyId,
                                 !.fileName = name,
                                 !.currentPath = copyPath,
                                 !.folderPath = Field(location, "folder"),
                                 !.operations = <<Operation(copyPath)>>,
                                 !.status = "copied",
                                 !.isCopy = TRUE,
                                 !.originalFileId = originalFile.id]
        Modified(fileCopy) ==
            IF "modifications" \in DOMAIN location
            THEN ApplyModificationsToCopy(fileCopy, location.modifications)
            ELSE fileCopy
        CopyTo(copyPath) ==
            LogOperation(IF dryRun THEN st
                         ELSE [st EXCEPT !.files = Append(@, Modified(FileCopy(copyPath)))],
                         Operation(copyPath), dryRun)
    IN  CopyTo(JoinPath(Field(location, "folder"), name))

RECURSIVE ApplyCopyLocationsFromSecond(_, _, _, _, _, _)
ApplyCopyLocationsFromSecond(st, fileName, originalFile, locations, index, dryRun) ==
    IF index + 1 >= Len(locations) THEN st
    ELSE ApplyCopyLocationsFromSecond(
             ApplyCopyLocation(st, fileName, originalFile, locations[index + 2], index + 1, dryRun),
             fileName, originalFile, locations, index + 1, dryRun)
RECURSIVE ApplyCopyLocations(_, _, _, _, _, _)
ApplyCopyLocations(st, fileName, originalFile, locations, index, dryRun) ==
    IF index >= Len(locations) THEN st
    ELSE ApplyCopyLocations(
             ApplyCopyLocation(st, fileName, originalFile, locations[index + 1], index, dryRun),
             fileName, originalFile, locations, index + 1, dryRun)

\* applyCopyToMultipleLocations, one entry [fileName, locations]; the validator has
\* checked that locations is an array
ApplyCopyToMultipleLocations(st, rule, dryRun) ==
    LET At(i) == IF i = 0 THEN st
                 ELSE ApplyCopyLocations(st, rule[1], st.files[i], rule[2].items, 0, dryRun)
    IN  At(FindFileByName(st.files, rule[1]))

RECURSIVE Flatten(_)
Flatten(lists) == IF Len(lists) = 0 THEN <<>> ELSE lists[1] \o Flatten(Tail(lists))

\* mergeFileContents
MergeFileContents(sourceFiles, strategy) ==
    LET contents == [k \in 1..Len(sourceFiles) |-> sourceFiles[k].content]
    IN  CASE strategy = "concatenate" -> Join(contents, "\n\n")
          [] strategy = "package_merge" ->
                Join(SelectSeq(
                        <<PackageDeclaration(sourceFiles[1].content),
                          "",
                          Join(Unique(Flatten([k \in 1..Len(sourceFiles) |->
                                                  ImportDeclarations(contents[k])])), "\n"),
                          "",
                          Join([k \in 1..Len(sourceFiles) |->
                                   Trim(RemoveDecls(RemoveDecls(contents[k], 1, "package", FALSE),
                                                    1, "import", TRUE))], "\n\n")>>,
                        NonEmptyString), "\n")
          [] strategy = "section_merge" ->
                Join([k \in 1..Len(sourceFiles) |->
                         "// === " \o sourceFiles[k].fileName \o " ===\n" \o contents[k]
                         \o "\n// === End " \o sourceFiles[k].fileName \o " ==="], "\n\n")
          [] OTHER -> Join(contents, "\n")

\* config.mergeStrategy || 'concatenate', config being the mergeFiles section
MergeStrategyOf(section) ==
    LET Of(v) == IF v.kind = "string" THEN (IF v.value = "" THEN "concatenate" ELSE v.value)
                 ELSE "<object>"
    IN  IF HasKey(ObjectEntries(section), "mergeStrategy")
        THEN Of(Get(ObjectEntries(section), "mergeStrategy"))
        ELSE "concatenate"

\* sources.forEach(source => ...): each resolved source, once per time it was resolved
MarkFirstMergeSource(fs, sources, mergedFileName) ==
    [fs EXCEPT ![sources[1]] =
        [@ EXCEPT !.status = "merged_source",
                  !.operations = Append(@, [type |-> "merged_into", mergedFile |-> mergedFileName])]]
RECURSIVE MarkMergeSources(_, _, _)
MarkMergeSources(fs, sources, mergedFileName) ==
    IF Len(sources) = 0 THEN fs
    ELSE MarkMergeSources(
             [fs EXCEPT ![sources[1]] =
                 [@ EXCEPT !.status = "merged_source",
                           !.operations = Append(@, [type |-> "merged_into",
                                                     mergedFile |-> mergedFileName])]],
             Tail(sources), mergedFileName)

\* sourceFiles.map(fileName => this.findFileByName(fileName)).filter(Boolean), as indices
ResolveSources(fs, names) ==
    SelectSeq([k \in 1..Len(names) |-> FindFileByName(fs, names[k])], LAMBDA i : i # 0)

\* applyMergeFiles, one entry [mergedFileName, sourceFiles] of the section; a value that
\* is not an array has no map method and the call throws a TypeError
ApplyMergeFile(st, section, rule, dryRun) ==
    LET operation == [type |-> "merge", sourceFiles |-> rule[2].items, mergedFile |-> rule[1],
                      strategy |-> IF HasKey(ObjectEntries(section), "mergeStrategy")
                                   THEN Get(ObjectEntries(section), "mergeStrategy")
                                   ELSE Str(Undefined)]
        MergedFile(sources, mergedContent) ==
            [id |-> GenerateId(st.idc + 1),
             fileName |-> rule[1],
             currentPath |-> rule[1],
             extension |-> GetFileExtension(rule[1]),
             content |-> mergedContent,
             size |-> BlobSize(mergedContent),
             lines |-> LineCount(mergedContent),
             operations |-> <<operation>>,
             status |-> "merged",
             isMerged |-> TRUE,
             sourceFileIds |-> [k \in 1..Len(sources) |-> st.files[sources[k]].id]]
            @@ AbsentFields
        Merge(sources, mergedContent) ==
            LogOperation(IF dryRun THEN st
                         ELSE [st EXCEPT !.files = MarkMergeSources(
                                                       Append(@, MergedFile(sources, mergedContent)),
                                                       sources, rule[1]),
                                         !.idc = @ + 1],
                         operation, dryRun)
        From(sources) ==
            IF Len(sources) = 0 THEN st
            ELSE Merge(sources,
                       MergeFileContents([k \in 1..Len(sources) |-> st.files[sources[k]]],
                                         MergeStrategyOf(section)))
    IN  IF rule[2].kind # "array" THEN [st EXCEPT !.threw = TRUE]
        ELSE From(ResolveSources(st.files, rule[2].items))

DefaultLinesPerFile == 100

\* /class\s+(\w+)[^{]*\{/ at position i: <<position after the match, class name>>, or
\* <<0, "">> for no match
ClassMatchAt(s, i) ==
    LET Match(a, b, c, d) ==
            IF StartsAt(s, i, "class") /\ b > a /\ c > b /\ d <= Len(s)
            THEN <<d + 1, SubSeq(s, b, c - 1)>>
            ELSE <<0, "">>
        AfterName(a, b, c) == Match(a, b, c, SpanEnd(s, c, "[^{]"))
        AfterSpaces(a, b) == AfterName(a, b, SpanEnd(s, b, "\\w"))
    IN  AfterSpaces(i + 5, SpanEnd(s, i + 5, "\\s"))

\* [...content.matchAll(/class\s+(\w+)[^{]*\{/g)], as <<start, class name>> pairs
RECURSIVE ClassMatches(_, _)
ClassMatches(s, i) ==
    LET Rest(m) == ClassMatches(s, IF m[1] = 0 THEN i + 1 ELSE m[1])
        From(m) == IF m[1] = 0 THEN Rest(m) ELSE <<<<i, m[2]>>>> \o Rest(m)
    IN  IF i > Len(s) THEN <<>> ELSE From(ClassMatchAt(s, i))

\* the brace-counting loop of by_class: the position of the closing brace that brings
\* the depth back to 0, scanning from i; 0 when there is none
RECURSIVE ClassEnd(_, _, _)
ClassEnd(s, i, braceCount) ==
    LET Count(c) == IF c = "{" THEN braceCount + 1
                    ELSE IF c = "}" THEN braceCount - 1 ELSE braceCount
    IN  IF i > Len(s) THEN 0
        ELSE IF Count(CharAt(s, i)) = 0 /\ CharAt(s, i) = "}" THEN i
        ELSE ClassEnd(s, i + 1, Count(CharAt(s, i)))

\* a record made by splitFileContent
SplitRecord(sourceFile, id, fileName, content, lines, operation) ==
    [id |-> id, fileName |-> fileName, currentPath |-> fileName,
     extension |-> sourceFile.extension, content |-> content, size |-> BlobSize(content),
     lines |-> lines, operations |-> <<operation>>, status |-> "split_result",
     isSplit |-> TRUE, sourceFileId |-> sourceFile.id] @@ AbsentFields

\* splitFileContent, strategy by_class
SplitByClass(sourceFile, idc, classMatches, packageDeclaration, imports) ==
    LET ClassContent(e, classStart) ==
            IF e = 0 THEN "" ELSE SubSeq(sourceFile.content, classStart, e)
        ClassFile(k, className, fullContent) ==
            SplitRecord(sourceFile, GenerateId(idc + k), className \o "." \o sourceFile.extension,
                        fullContent, LineCount(fullContent),
                        [type |-> "split_from", sourceFile |-> sourceFile.fileName,
                         className |-> className])
    IN  [k \in 1..Len(classMatches) |->
            ClassFile(k, classMatches[k][2],
                      Join(SelectSeq(<<packageDeclaration, "", Join(imports, "\n"), "",
                                       ClassContent(ClassEnd(sourceFile.content,
                                                             classMatches[k][1], 0),
                                                    classMatches[k][1])>>,
                                     NonEmptyString), "\n"))]

\* splitFileContent, strategy by_lines
SplitByLinesWholeChunks(sourceFile, idc, lines, linesPerFile) ==
    LET PartFile(k, chunkLines) ==
            SplitRecord(sourceFile, GenerateId(idc + k),
                        StripExtension(sourceFile.fileName) \o "_part" \o ToString(k)
                        \o "." \o sourceFile.extension,
                        Join(chunkLines, "\n"), Len(chunkLines),
                        [type |-> "split_from", sourceFile |-> sourceFile.fileName,
                         partNumber |-> k])
    IN  [k \in 1..(Len(lines) \div linesPerFile) |->
            PartFile(k, SubSeq(lines, (k - 1) * linesPerFile + 1, k * linesPerFile))]
SplitByLines(sourceFile, idc, lines, linesPerFile) ==
    LET PartFile(k, chunkLines) ==
            SplitRecord(sourceFile, GenerateId(idc + k),
                        StripExtension(sourceFile.fileName) \o "_part" \o ToString(k)
                        \o "." \o sourceFile.extension,
                        Join(chunkLines, "\n"), Len(chunkLines),
                        [type |-> "split_from", sourceFile |-> sourceFile.fileName,
                         partNumber |-> k])
    IN  [k \in 1..((Len(lines) + linesPerFile - 1) \div linesPerFile) |->
            PartFile(k, SubSeq(lines, (k - 1) * linesPerFile + 1,
                               Min(k * linesPerFile, Len(lines))))]

\* splitFileContent: the records made from sourceFile; idc is the number of identifiers
\* generated before the call
SplitFileContent(sourceFile, splitConfig, idc) ==
    CASE Field(splitConfig, "strategy") = "by_class" ->
            SplitByClass(sourceFile, idc, ClassMatches(sourceFile.content, 1),
                         PackageDeclaration(sourceFile.content),
                         ImportDeclarations(sourceFile.content))
      [] Field(splitConfig, "strategy") = "by_function" -> <<>>
      [] Field(splitConfig, "strategy") = "by_lines" ->
            SplitByLines(sourceFile, idc, Split(sourceFile.content, "\n"),
                         IF "linesPerFile" \in DOMAIN splitConfig /\ splitConfig.linesPerFile # 0
                         THEN splitConfig.linesPerFile ELSE DefaultLinesPerFile)
      [] OTHER -> <<>>

FileNamesOf(fs) == [k \in 1..Len(fs) |-> fs[k].fileName]

\* applySplitFiles putting the split results in the place of the source
ApplySplitFileReplacingSource(st, rule, dryRun) ==
    LET Operation(splitFiles) ==
            [type |-> "split", sourceFile |-> rule[1], splitFiles |-> FileNamesOf(splitFiles),
             strategy |-> Field(rule[2], "strategy")]
        SplitInto(i, splitFiles) ==
            LogOperation(IF dryRun THEN [st EXCEPT !.idc = @ + Len(splitFiles)]
                         ELSE [st EXCEPT !.idc = @ + Len(splitFiles),
                                         !.files = SubSeq(@, 1, i - 1) \o splitFiles
                                                   \o SubSeq(@, i + 1, Len(@))],
                         Operation(splitFiles), dryRun)
        At(i) == IF i = 0 THEN st
                 ELSE SplitInto(i, SplitFileContent(st.files[i], rule[2], st.idc))
    IN  At(FindFileByName(st.files, rule[1]))

\* applySplitFiles, one entry [sourceFileName, splitConfig]
ApplySplitFile(st, rule, dryRun) ==
    LET Operation(splitFiles) ==
            [type |-> "split", sourceFile |-> rule[1], splitFiles |-> FileNamesOf(splitFiles),
             strategy |-> Field(rule[2], "strategy")]
        Marked(sourceFile, splitFiles) ==
            [sourceFile EXCEPT !.status = "split_source",
                               !.operations = Append(@, [type |-> "split_into",
                                                         splitFiles |-> FileNamesOf(splitFiles)])]
        SplitInto(i, splitFiles) ==
            LogOperation(IF dryRun THEN [st EXCEPT !.idc = @ + Len(splitFiles)]
                         ELSE [st EXCEPT !.idc = @ + Len(splitFiles),
                                         !.files = [@ EXCEPT ![i] = Marked(@, splitFiles)]
                                                   \o splitFiles],
                         Operation(splitFiles), dryRun)
        At(i) == IF i = 0 THEN st
                 ELSE SplitInto(i, SplitFileContent(st.files[i], rule[2], st.idc))
    IN  At(FindFileByName(st.files, rule[1]))

(***************************************************************************)
(* FileOrganizer: validation of the configuration, of the results, report. *)
(***************************************************************************)
UnsafePathDotsOnly(path) == Includes(path, "..")
UnsafePath(path) == Includes(path, "..") \/ StartsWith(path, "/")

SupportedSections == <<"fileRenames", "extensionChanges", "folderMappings", "contentUpdates",
                       "copyToMultipleLocations", "mergeFiles", "splitFiles">>
MetadataKeys == {"projectName", "description", "version"}

\* the errors of one validated section of the configuration
FileRenamesErrors(v) ==
    IF ~TypeofObject(v) THEN <<"fileRenames deve essere un oggetto">>
    ELSE LET bad == SelectSeq(ObjectEntries(v), LAMBDA e : e[1] = "" \/ e[2] = "")
         IN  [k \in 1..Len(bad) |->
                 "Nome file vuoto in fileRenames: " \o bad[k][1] \o " -> " \o bad[k][2]]

FolderMappingsErrors(v) ==
    IF ~TypeofObject(v) THEN <<"folderMappings deve essere un oggetto">>
    ELSE LET bad == SelectSeq(ObjectEntries(v), LAMBDA e : UnsafePath(e[2]))
         IN  [k \in 1..Len(bad) |-> "Path non sicuro in folderMappings: " \o bad[k][2]]

CopyToMultipleLocationsErrors(v) ==
    IF ~TypeofObject(v) THEN <<"copyToMultipleLocations deve essere un oggetto">>
    ELSE LET bad == SelectSeq(ObjectEntries(v),
                              LAMBDA e : e[2].kind # "array" \/ Len(e[2].items) = 0)
         IN  [k \in 1..Len(bad) |->
                 IF bad[k][2].kind # "array"
                 THEN "Le destinazioni per " \o bad[k][1] \o " devono essere un array"
                 ELSE "Almeno una destinazione richiesta per " \o bad[k][1]]

SectionErrors(entries, key, Errors(_)) ==
    IF HasKey(entries, key) /\ Truthy(Get(entries, key)) THEN Errors(Get(entries, key)) ELSE <<>>

\* validateAndNormalizeConfig; raw is the value passed: null, a string or an object
ValidateAndNormalizeConfig(raw) ==
    IF raw.kind # "object"
    THEN [isNull |-> FALSE, isValid |-> FALSE,
          errors |-> <<"Configurazione deve essere un oggetto JSON valido">>,
          warnings |-> <<>>, data |-> <<>>]
    ELSE LET entries == raw.entries
             unknownSections == SelectSeq([k \in 1..Len(entries) |-> entries[k][1]],
                                          LAMBDA key : key \notin Range(SupportedSections)
                                                       /\ key \notin MetadataKeys)
             warnings == IF Len(unknownSections) > 0
                         THEN <<"Sezioni sconosciute: " \o Join(unknownSections, ", ")>>
                         ELSE <<>>
             errors == SectionErrors(entries, "fileRenames", FileRenamesErrors)
                       \o SectionErrors(entries, "folderMappings", FolderMappingsErrors)
                       \o SectionErrors(entries, "copyToMultipleLocations",
                                        CopyToMultipleLocationsErrors)
         IN  [isNull |-> FALSE, isValid |-> Len(errors) = 0, errors |-> errors,
              warnings |-> warnings, data |-> entries]

\* this.config = null, as the constructor and reset leave it
NoConfig == [isNull |-> TRUE, isValid |-> FALSE, errors |-> <<>>, warnings |-> <<>>, data |-> <<>>]

\* if (duplicates.length > 0) validation.errors.push(...)
DuplicateErrorsFromTwo(duplicates) ==
    IF Len(duplicates) > 1 THEN <<"File duplicati: " \o Join(Unique(duplicates), ", ")>> ELSE <<>>
DuplicateErrors(duplicates) ==
    IF Len(duplicates) > 0 THEN <<"File duplicati: " \o Join(Unique(duplicates), ", ")>> ELSE <<>>

\* validateOrganizationResults: the value stored in this.validationResults
ValidateOrganizationResults(fs) ==
    LET fileNames == [k \in 1..Len(fs) |-> fs[k].currentPath]
        firstIndex(name) == CHOOSE i \in 1..Len(fs) : fileNames[i] = name
                                                       /\ \A j \in 1..(i - 1) : fileNames[j] # name
        dupIdx == SelectSeq([k \in 1..Len(fs) |-> k], LAMBDA k : firstIndex(fileNames[k]) # k)
        duplicates == [k \in 1..Len(dupIdx) |-> fileNames[dupIdx[k]]]
        invalidPaths == SelectSeq(fs, LAMBDA f : Falsy(f.currentPath) \/ Trim(f.currentPath) = "")
        emptySizeFiles == SelectSeq(fs, LAMBDA f : f.size = 0)
    IN  [defined |-> TRUE,
         errors |-> DuplicateErrors(duplicates)
                    \o (IF Len(invalidPaths) > 0
                        THEN <<ToString(Len(invalidPaths)) \o " file con path non validi">>
                        ELSE <<>>),
         warnings |-> IF Len(emptySizeFiles) > 0
                      THEN <<ToString(Len(emptySizeFiles)) \o " file vuoti">> ELSE <<>>,
         stats |-> [totalFiles |-> Len(fs),
                    renamedFiles |-> Len(SelectSeq(fs, LAMBDA f : f.status = "renamed")),
                    movedFiles |-> Len(SelectSeq(fs, LAMBDA f : f.status = "moved")),
                    copiedFiles |-> Len(SelectSeq(fs, LAMBDA f : f.isCopy)),
                    mergedFiles |-> Len(SelectSeq(fs, LAMBDA f : f.isMerged)),
                    splitFiles |-> Len(SelectSeq(fs, LAMBDA f : f.isSplit))]]

\* this.validationResults / this.organizationReport before anything set them
NoValidation == [defined |-> FALSE]
NoReport == [defined |-> FALSE]

\* generateOrganizationReport: the value stored in this.organizationReport (without the
\* wall-clock fields, the descriptions and the recommendations)
GenerateOrganizationReport(fs, log, validation) ==
    [defined |-> TRUE,
     summary |-> [totalFiles |-> Len(fs), totalOperations |-> Len(log)],
     operations |-> [k \in 1..Len(log) |-> [type |-> log[k].type, dryRun |-> log[k].dryRun]],
     files |-> [k \in 1..Len(fs) |->
                   [fileName |-> fs[k].fileName, currentPath |-> fs[k].currentPath,
                    originalPath |-> fs[k].originalPath, status |-> fs[k].status,
                    operations |-> Len(fs[k].operations), size |-> fs[k].size,
                    isGenerated |-> fs[k].isCopy \/ fs[k].isMerged \/ fs[k].isSplit]],
     validation |-> validation]

\* getFinalProjectStructure.  The tree is held as the set of its nodes: each has the keys
\* that lead to it from the root, and the file entry stored there if it is one
NoEntry == [size |-> 0, extension |-> "", operations |-> 0, isGenerated |-> FALSE]
IsPathPrefix(p, q) == Len(p) <= Len(q) /\ SubSeq(q, 1, Len(p)) = p

\* the loop over parts: if (!current[parts[i]]) current[parts[i]] = {}
WithFolders(tree, parts) ==
    tree \cup {[path |-> SubSeq(parts, 1, k), isFile |-> FALSE, entry |-> NoEntry] :
                  k \in {m \in 1..(Len(parts) - 1) :
                            ~\E node \in tree : node.path = SubSeq(parts, 1, m)}}

\* current[fileName] = {...}: the entry takes the place of what the key held
WithEntry(tree, parts, file) ==
    {node \in tree : ~IsPathPrefix(parts, node.path)}
    \cup {[path |-> parts, isFile |-> TRUE,
            entry |-> [size |-> file.size, extension |-> file.extension,
                       operations |-> Len(file.operations),
                       isGenerated |-> file.isCopy \/ file.isMerged \/ file.isSplit]]}

RECURSIVE StructureFrom(_, _, _)
StructureFrom(tree, fs, k) ==
    IF k > Len(fs) THEN tree
    ELSE IF fs[k].status = "merged_source" \/ fs[k].status = "split_source"
    THEN StructureFrom(tree, fs, k + 1)
    ELSE StructureFrom(WithEntry(WithFolders(tree, Split(fs[k].currentPath, "/")),
                                 Split(fs[k].currentPath, "/"), fs[k]),
                       fs, k + 1)

GetFinalProjectStructure(fs) == StructureFrom({}, fs, 1)

(***************************************************************************)
(* The inputs of the Organizer: the file lists and the configurations a    *)
(* caller passes.                                                          *)
(***************************************************************************)
FileNames == {"a.kt", "x.kt"}

ContentOf(name) == IF name = "a.kt" THEN "package p\nclass A{}" ELSE "val x"

\* a file as the Extractor or the upload hands it over; its id is made by the caller
InputFile(name, k) ==
    [id |-> "in_" \o ToString(k), fileName |-> name, extension |-> GetFileExtension(name),
     content |-> ContentOf(name), size |-> BlobSize(ContentOf(name)),
     lines |-> LineCount(ContentOf(name))]

RECURSIVE NameLists(_)
NameLists(n) ==
    IF n = 0 THEN {<<>>}
    ELSE LET shorter == NameLists(n - 1)
         IN  shorter \cup {Append(l, name) : l \in {x \in shorter : Len(x) = n - 1}, name \in FileNames}

FileLists == {[k \in 1..Len(l) |-> InputFile(l[k], k)] : l \in NameLists(MaxFiles)}

\* the values a configuration may give to each section
SectionChoices ==
    { <<"fileRenames", Obj(<< <<"a.kt", "B.kt">>, <<"x.kt", "a.kt">> >>)>>,
      <<"fileRenames", Obj(<< <<"a.kt", "x.kt">> >>)>>,
      <<"fileRenames", Str("B.kt")>>,
      <<"extensionChanges", Obj(<< <<"a.kt", "java">> >>)>>,
      <<"folderMappings", Obj(<< <<"a.kt", "src">> >>)>>,
      <<"folderMappings", Obj(<< <<"a.kt", "../etc">> >>)>>,
      <<"folderMappings", Obj(<< <<"x.kt", "/abs">> >>)>>,
      <<"contentUpdates",
        Obj(<< <<"a.kt", [replacements |-> <<[find |-> "A", replace |-> "Main"]>>,
                          addImports |-> <<"q.R">>,
                          updatePackage |-> "org.app"]>> >>)>>,
      <<"copyToMultipleLocations",
        Obj(<< <<"a.kt", Arr(<<[folder |-> "core", name |-> "C.kt"], [folder |-> "src"]>>)>> >>)>>,
      <<"copyToMultipleLocations",
        Obj(<< <<"a.kt", Arr(<<[folder |-> "../up"], [folder |-> "", name |-> "/x.kt"]>>)>> >>)>>,
      <<"mergeFiles", Obj(<< <<"m.kt", Arr(<<"x.kt", "zz.kt", "a.kt">>)>> >>)>>,
      <<"mergeFiles", Obj(<< <<"a.kt", Arr(<<"a.kt", "a.kt">>)>> >>)>>,
      <<"splitFiles", Obj(<< <<"a.kt", [strategy |-> "by_lines", linesPerFile |-> 1]>> >>)>> }

\* rules of other forms: a rename to another suffix, a copy with modifications, a copy
\* whose destinations are path strings as in the README, a merge section that names its
\* strategy, a split by function, a folder that has the name of a file
VariantChoices ==
    { <<"fileRenames", Obj(<< <<"a.kt", "a.java">> >>)>>,
      <<"extensionChanges", Obj(<< <<"a.kt", "java">> >>)>>,
      <<"folderMappings", Obj(<< <<"a.kt", "src">> >>)>>,
      <<"folderMappings", Obj(<< <<"a.kt", "x.kt">> >>)>>,
      <<"contentUpdates",
        Obj(<< <<"a.kt", [replacements |-> <<[find |-> "A", replace |-> "Main"]>>,
                          addImports |-> <<"q.R">>,
                          updatePackage |-> "org.app"]>> >>)>>,
      <<"copyToMultipleLocations",
        Obj(<< <<"a.kt", Arr(<<[folder |-> "src", modifications |-> [imports |-> <<"q.R">>]]>>)>> >>)>>,
      <<"copyToMultipleLocations",
        Obj(<< <<"a.kt", Arr(<<Str("core/C.kt"), Str("utils/AppC.kt")>>)>> >>)>>,
      <<"mergeFiles", Obj(<< <<"m.kt", Arr(<<"a.kt", "x.kt">>)>>,
                             <<"mergeStrategy", Str("package_merge")>> >>)>>,
      <<"mergeFiles", Obj(<< <<"mergeStrategy", Str("section_merge")>>,
                             <<"m.kt", Arr(<<"a.kt">>)>> >>)>>,
      <<"splitFiles", Obj(<< <<"a.kt", [strategy |-> "by_function"]>> >>)>> }

OperationNumber(key) == CHOOSE k \in 1..Len(SupportedSections) : SupportedSections[k] = key

\* the configurations with at most n sections drawn from the choices, their keys in the
\* order of the pipeline
RECURSIVE EntriesOver(_, _)
EntriesOver(choices, n) ==
    IF n = 0 THEN {<<>>}
    ELSE LET Longer(fewer) ==
                 fewer \cup UNION {{Append(c, choice) :
                                       choice \in {ch \in choices :
                                                      \A k \in 1..Len(c) :
                                                         OperationNumber(c[k][1]) < OperationNumber(ch[1])}} :
                                    c \in {x \in fewer : Len(x) = n - 1}}
         IN  Longer(EntriesOver(choices, n - 1))

ConfigEntries(n) == EntriesOver(SectionChoices, n)

Reverse(seq) == [k \in 1..Len(seq) |-> seq[Len(seq) + 1 - k]]

\* the configurations a caller passes: null, and objects whose keys are declared in the
\* order of the pipeline or in the opposite order
Configs ==
    {Obj(entries) : entries \in ConfigEntries(MaxSections)}
    \cup {Obj(Reverse(entries)) : entries \in ConfigEntries(MaxSections)}
    \cup {[kind |-> "null"]}

VariantConfigs == {Obj(entries) : entries \in EntriesOver(VariantChoices, MaxSections)}

(***************************************************************************)
(* FileOrganizer: the calls.                                               *)
(***************************************************************************)
\* the operations array of organizeFiles
OperationsAsDeclared == [k \in 1..Len(config.data) |-> config.data[k][1]]
Operations == SupportedSections
Finished == Len(Operations) + 1

\* config.data[operation], when it is there and truthy
SectionPresent(data, operation) == HasKey(data, operation) /\ Truthy(Get(data, operation))

\* the next rule the loops of organizeFiles reach, from rule number `rule` of operation
\* number `op` on: <<operation number, rule number>>, <<Finished, 1>> when none is left
RECURSIVE NextRule(_, _, _)
NextRule(data, op, rule) ==
    IF op > Len(Operations) THEN <<Finished, 1>>
    ELSE IF SectionPresent(data, Operations[op])
            /\ rule <= Len(ObjectEntries(Get(data, Operations[op])))
         THEN <<op, rule>>
         ELSE NextRule(data, op + 1, 1)

Idle == [active |-> FALSE]
NoPrevious == [before |-> <<>>, log |-> <<>>, returned |-> FALSE]
NoCall == [loadConfig |-> "none", organizeFiles |-> "none", validated |-> FALSE]

OrgInit ==
    /\ files = <<>>
    /\ config = NoConfig
    /\ organizationLog = <<>>
    /\ validationResults = NoValidation
    /\ organizationReport = NoReport
    /\ idCounter = 0
    /\ run = Idle
    /\ before = <<>>
    /\ previous = NoPrevious
    /\ pending = <<>>
    /\ outcome = NoCall
    /\ runs = 0
    /\ consoleWarnings = <<>>

\* loadFiles(files)
Loaded(input) ==
    LET missing == SelectSeq([k \in 1..Len(input) |-> k], LAMBDA k : Falsy(Field(input[k], "id")))
        idOf(k) == IF Falsy(Field(input[k], "id"))
                   THEN GenerateId(idCounter + Cardinality({j \in 1..k : Falsy(Field(input[j], "id"))}))
                   ELSE input[k].id
    IN  [files |-> [k \in 1..Len(input) |-> LoadedRecord(input[k], idOf(k))],
         idc |-> idCounter + Len(missing)]

LoadFilesOf(input) ==
    /\ files' = Loaded(input).files
    /\ idCounter' = Loaded(input).idc

LoadFiles ==
    /\ ~run.active
    /\ LoadFilesOf(inFiles)
    /\ UNCHANGED <<config, organizationLog, validationResults, organizationReport, run, before,
                   previous, pending, outcome, runs, inFiles, inConfig, consoleWarnings>>
    /\ UNCHANGED <<extVars, contentVars, appVars>>

\* removeUploadedFile(fileId) of the application, once its state.organizedFiles is the
\* array that organizeFiles returned: the working set without the record is loaded again
RemoveUploadedFile(fileId) ==
    /\ ~run.active
    /\ outcome.organizeFiles = "returned"
    /\ LoadFilesOf(SelectSeq(files, LAMBDA file : file.id # fileId))
    /\ UNCHANGED <<config, organizationLog, validationResults, organizationReport, run, before,
                   previous, pending, outcome, runs, inFiles, inConfig, consoleWarnings>>
    /\ UNCHANGED <<extVars, contentVars, appVars>>

\* loadConfig(config)
LoadConfigOf(raw) ==
    /\ ~run.active
    /\ config' = ValidateAndNormalizeConfig(raw)
    /\ outcome' = [outcome EXCEPT !.loadConfig = IF config'.isValid THEN "returned" ELSE "threw"]
    /\ UNCHANGED <<files, organizationLog, validationResults, organizationReport, idCounter, run,
                   before, previous, pending, runs, inFiles, inConfig, consoleWarnings>>
    /\ UNCHANGED <<extVars, contentVars, appVars>>

LoadConfig == LoadConfigOf(inConfig)

\* organizeFiles(options), up to the loop over the operations. Of the options only dryRun
\* is read before the loop ends; validateResults and generateReport, which the call
\* receives here, come into the model where the code first reads them (OrganizeFilesEnd).
OrganizeFilesStartWithin(dryRun, maxRuns) ==
    /\ ~run.active
    /\ runs < maxRuns
    /\ runs' = runs + 1
    /\ IF config.isNull \/ ~config.isValid
       THEN /\ outcome' = [outcome EXCEPT !.organizeFiles = "threw"]
            /\ UNCHANGED <<organizationLog, run, before, previous, consoleWarnings>>
       ELSE /\ organizationLog' = <<>>
            /\ consoleWarnings' = <<>>
            /\ before' = files
            /\ previous' = [before |-> before, log |-> organizationLog,
                            returned |-> outcome.organizeFiles = "returned"]
            /\ run' = [active |-> TRUE, dryRun |-> dryRun,
                       op |-> NextRule(config.data, 1, 1)[1],
                       rule |-> NextRule(config.data, 1, 1)[2]]
            /\ outcome' = [outcome EXCEPT !.organizeFiles = "running"]
    /\ UNCHANGED <<files, config, validationResults, organizationReport, idCounter, pending,
                   inFiles, inConfig>>
    /\ UNCHANGED <<extVars, contentVars, appVars>>

OrganizeFilesStart(dryRun) == OrganizeFilesStartWithin(dryRun, MaxRuns)

\* the loops of organizeFiles and of the apply methods: the rule the call has reached
AtOperation(operation) == run.active /\ run.op <= Len(Operations) /\ Operations[run.op] = operation
CurrentSection == Get(config.data, Operations[run.op])
CurrentRule == ObjectEntries(CurrentSection)[run.rule]
CallState == [files |-> files, log |-> organizationLog, idc |-> idCounter, threw |-> FALSE,
              warned |-> consoleWarnings]

\* the Organizer after one rule: an exception ends the call, else the loops go on
AfterRule(st) ==
    /\ files' = st.files
    /\ organizationLog' = st.log
    /\ idCounter' = st.idc
    /\ consoleWarnings' = st.warned
    /\ IF st.threw
       THEN /\ run' = Idle
            /\ outcome' = [outcome EXCEPT !.organizeFiles = "threw"]
       ELSE /\ run' = [run EXCEPT !.op = NextRule(config.data, run.op, run.rule + 1)[1],
                                  !.rule = NextRule(config.data, run.op, run.rule + 1)[2]]
            /\ UNCHANGED outcome
    /\ UNCHANGED <<config, validationResults, organizationReport, before, previous, pending,
                   runs, inFiles, inConfig>>
    /\ UNCHANGED <<extVars, contentVars, appVars>>

FileRenamesStep ==
    AtOperation("fileRenames") /\ AfterRule(ApplyFileRename(CallState, CurrentRule, run.dryRun))
ExtensionChangesStep ==
    AtOperation("extensionChanges") /\ AfterRule(ApplyExtensionChange(CallState, CurrentRule, run.dryRun))
FolderMappingsStep ==
    AtOperation("folderMappings") /\ AfterRule(ApplyFolderMapping(CallState, CurrentRule, run.dryRun))
ContentUpdatesStep ==
    AtOperation("contentUpdates") /\ AfterRule(ApplyContentUpdate(CallState, CurrentRule, run.dryRun))
CopyToMultipleLocationsStep ==
    AtOperation("copyToMultipleLocations")
    /\ AfterRule(ApplyCopyToMultipleLocations(CallState, CurrentRule, run.dryRun))
MergeFilesStep ==
    AtOperation("mergeFiles")
    /\ AfterRule(ApplyMergeFile(CallState, CurrentSection, CurrentRule, run.dryRun))
SplitFilesStep ==
    AtOperation("splitFiles") /\ AfterRule(ApplySplitFile(CallState, CurrentRule, run.dryRun))

\* validateOrganizationResults: what it writes with console.warn
ValidationWarned(validation) ==
    (IF Len(validation.errors) > 0 THEN <<"Validation errors found:">> ELSE <<>>)
    \o (IF Len(validation.warnings) > 0 THEN <<"Validation warnings:">> ELSE <<>>)

\* organizeFiles after the loop: validation, report, return
OrganizeFilesEnd(validateResults, generateReport) ==
    /\ run.active
    /\ run.op = Finished
    /\ validationResults' = IF validateResults THEN ValidateOrganizationResults(files)
                            ELSE validationResults
    /\ organizationReport' = IF generateReport
                             THEN GenerateOrganizationReport(files, organizationLog, validationResults')
                             ELSE organizationReport
    /\ consoleWarnings' = IF validateResults
                          THEN consoleWarnings \o ValidationWarned(validationResults')
                          ELSE consoleWarnings
    /\ run' = Idle
    /\ outcome' = [outcome EXCEPT !.organizeFiles = "returned", !.validated = validateResults]
    /\ UNCHANGED <<files, config, organizationLog, idCounter, before, previous, pending, runs,
                   inFiles, inConfig>>
    /\ UNCHANGED <<extVars, contentVars, appVars>>

Next ==
    \/ LoadFiles
    \/ LoadConfig
    \/ \E dryRun \in BOOLEAN : OrganizeFilesStart(dryRun)
    \/ FileRenamesStep
    \/ ExtensionChangesStep
    \/ FolderMappingsStep
    \/ ContentUpdatesStep
    \/ CopyToMultipleLocationsStep
    \/ MergeFilesStep
    \/ SplitFilesStep
    \/ \E validateResults \in BOOLEAN, generateReport \in BOOLEAN :
          OrganizeFilesEnd(validateResults, generateReport)

(***************************************************************************)
(* CodeExtractor: the regular expressions of the header scanner, of the    *)
(* cleaning and of the file names.                                         *)
(***************************************************************************)
IsLineTerminator(c) == c \in {"\n", "\r"}
IsAlnum(c) == IsAlpha(c) \/ IsDigit(c)
IsNameChar(c) == IsAlnum(c) \/ c \in {"_", ".", "-"}

\* the first position >= i whose character fails the test (Len(s) + 1 when none)
RECURSIVE DigitsEnd(_, _)
DigitsEnd(s, i) == IF i <= Len(s) /\ IsDigit(CharAt(s, i)) THEN DigitsEnd(s, i + 1) ELSE i
RECURSIVE LineEnd(_, _)
LineEnd(s, i) == IF i <= Len(s) /\ ~IsLineTerminator(CharAt(s, i)) THEN LineEnd(s, i + 1) ELSE i
RECURSIVE NameEnd(_, _)
NameEnd(s, i) == IF i <= Len(s) /\ IsNameChar(CharAt(s, i)) THEN NameEnd(s, i + 1) ELSE i
RECURSIVE AlnumEnd(_, _)
AlnumEnd(s, i) == IF i <= Len(s) /\ IsAlnum(CharAt(s, i)) THEN AlnumEnd(s, i + 1) ELSE i

\* the greatest element of a non-empty set of positions
Last(positions) == CHOOSE i \in positions : \A j \in positions : i >= j

NoMatch == [found |-> FALSE]

\* patterns.numbered, /^\d+\.\s*(.+?)$/gm, at position i.  ^ holds at the start of the
\* text and after a line terminator.  \s* is greedy and also takes line terminators; it
\* gives characters back until (.+?) finds a character that is no line terminator.  The
\* lazy (.+?) then runs to the end of that line, where $ holds.
HeaderMatchAt(s, i) ==
    LET AtLineStart == i = 1 \/ IsLineTerminator(CharAt(s, i - 1))
        Header(titleStart, e) ==
            [found |-> TRUE, index |-> i - 1, fullMatch |-> SubSeq(s, i, e - 1),
             title |-> Trim(SubSeq(s, titleStart, e - 1)), end |-> e]
        TitleFrom(starts) ==
            IF starts = {} THEN NoMatch ELSE Header(Last(starts), LineEnd(s, Last(starts)))
        AfterDot(d, w) ==
            IF ~(AtLineStart /\ d > i /\ d <= Len(s) /\ CharAt(s, d) = ".") THEN NoMatch
            ELSE TitleFrom({t \in (d + 1)..Min(w, Len(s)) : ~IsLineTerminator(CharAt(s, t))})
        AfterDigits(d) == AfterDot(d, SpanEnd(s, d + 1, "\\s"))
    IN  AfterDigits(DigitsEnd(s, i))

\* [...input.matchAll(this.patterns.numbered)]: the matches from position i on, each
\* search starting where the match before ended
RECURSIVE NumberedMatches(_, _)
NumberedMatches(s, i) ==
    LET Rest(m) == NumberedMatches(s, IF m.found THEN m.end ELSE i + 1)
        From(m) == IF m.found THEN <<m>> \o Rest(m) ELSE Rest(m)
    IN  IF i > Len(s) THEN <<>> ELSE From(HeaderMatchAt(s, i))

\* headers.sort((a, b) => a.index - b.index), for headers of pairwise distinct index
SortByIndex(headers) ==
    [k \in 1..Len(headers) |->
        headers[CHOOSE n \in 1..Len(headers) :
                    Cardinality({m \in 1..Len(headers) : headers[m].index < headers[n].index}) = k - 1]]

\* findHeaders
FindHeaders(input) ==
    LET Headers(matches) ==
            [k \in 1..Len(matches) |->
                [type |-> "numbered", title |-> matches[k].title, index |-> matches[k].index,
                 fullMatch |-> matches[k].fullMatch]]
    IN  SortByIndex(Headers(NumberedMatches(input, 1)))

\* the language markers of cleanCode, in the order of the alternation
LanguageMarkers == <<"kotlin", "java", "javascript", "html", "css", "json", "xml", "yaml", "sql",
                     "python", "php", "c++", "c#", "swift", "go", "rust", "typescript">>

\* /^(KOTLIN|...|TYPESCRIPT)\s*\n/i at the start of the content: the position after the
\* match, 0 for no match.  \s* gives back what follows the last newline of the white space.
LanguageMarkerEnd(content) ==
    LET Newlines(a, w) == {n \in a..(w - 1) : CharAt(content, n) = "\n"}
        EndAfter(a, w) == IF Newlines(a, w) = {} THEN 0 ELSE Last(Newlines(a, w)) + 1
        EndOf(marker) == EndAfter(Len(marker) + 1, SpanEnd(content, Len(marker) + 1, "\\s"))
        Fits(marker) == StartsWith(ToLowerCase(content), marker) /\ EndOf(marker) # 0
        Matching == {k \in 1..Len(LanguageMarkers) : Fits(LanguageMarkers[k])}
    IN  IF Matching = {} THEN 0 ELSE EndOf(LanguageMarkers[First(Matching)])

\* the fence of a Markdown code block, three backquotes; a TLA+ string cannot hold a
\* backquote, and the model writes an apostrophe for it
Fence == "'''"

\* content.replace(/^<fence>[\w]*\n/, '')
WithoutOpeningFence(content) ==
    LET Strip(w) == IF StartsWith(content, Fence) /\ w <= Len(content) /\ CharAt(content, w) = "\n"
                    THEN SubSeq(content, w + 1, Len(content)) ELSE content
    IN  Strip(SpanEnd(content, 4, "\\w"))

\* content.replace(/\n<fence>$/, '')
WithoutClosingFence(content) ==
    IF EndsWith(content, "\n" \o Fence) THEN SubSeq(content, 1, Len(content) - 4) ELSE content

\* content.replace(languageMarkers, '')
WithoutLanguageMarker(content) ==
    LET Strip(e) == IF e = 0 THEN content ELSE SubSeq(content, e, Len(content))
    IN  Strip(LanguageMarkerEnd(content))

\* cleanCode
CleanCode(content) == Trim(WithoutClosingFence(WithoutOpeningFence(WithoutLanguageMarker(content))))

\* patterns.filename, /([A-Za-z0-9_.-]+\.[a-zA-Z0-9]+)/, from position i: <<start, end>>
\* of the match (end exclusive), <<0, 0>> for no match.  The first group is greedy: it
\* stops before the last dot of the run of name characters that a letter or digit follows.
FilenameMatchAt(s, i) ==
    LET Dots(e) == {q \in (i + 1)..(e - 2) : CharAt(s, q) = "." /\ IsAlnum(CharAt(s, q + 1))}
        Match(e) == IF Dots(e) = {} THEN <<0, 0>> ELSE <<i, AlnumEnd(s, Last(Dots(e)) + 1)>>
    IN  IF i <= Len(s) /\ IsNameChar(CharAt(s, i)) THEN Match(NameEnd(s, i)) ELSE <<0, 0>>

\* title.replace(/[^A-Za-z0-9_.-]/g, '')
RECURSIVE NameCharsOf(_)
NameCharsOf(s) ==
    IF Len(s) = 0 THEN ""
    ELSE (IF IsNameChar(CharAt(s, 1)) THEN CharAt(s, 1) ELSE "") \o NameCharsOf(SubSeq(s, 2, Len(s)))

\* extractFileName.  The language-specific patterns of its loop each hold a match of
\* patterns.filename, so the loop is reached only with a title that none of them matches.
ExtractFileName(title) ==
    LET Sanitized(name) == IF name = "" THEN "file" ELSE name
        FirstMatch(starts) ==
            IF starts = {} THEN Sanitized(ToLowerCase(NameCharsOf(title)))
            ELSE SubSeq(title, First(starts), FilenameMatchAt(title, First(starts))[2] - 1)
    IN  FirstMatch({i \in 1..Len(title) : FilenameMatchAt(title, i)[1] # 0})

(***************************************************************************)
(* CodeExtractor: the language of a content.                               *)
(***************************************************************************)
\* /<word>\s+/ somewhere in s
KeywordThenSpace(s, word) ==
    \E i \in 1..Len(s) :
        StartsAt(s, i, word) /\ i + Len(word) <= Len(s) /\ IsSpace(CharAt(s, i + Len(word)))

\* /<word>\s+\w+/ somewhere in s
KeywordThenWord(s, word) ==
    LET Fits(a, b) == b > a /\ b <= Len(s) /\ IsWordChar(CharAt(s, b))
    IN  \E i \in 1..Len(s) :
            StartsAt(s, i, word) /\ Fits(i + Len(word), SpanEnd(s, i + Len(word), "\\s"))

\* /<word>\s+.*?<closing>/ and /<word>\s+.*<closing>/ somewhere in s: white space, then
\* characters of one line, then the closing text
KeywordThenOnLine(s, word, closing) ==
    LET Fits(a, w) ==
            \E k \in (a + 1)..w : \E j \in k..Len(s) :
                /\ StartsAt(s, j, closing)
                /\ \A m \in k..(j - 1) : ~IsLineTerminator(CharAt(s, m))
    IN  \E i \in 1..Len(s) :
            StartsAt(s, i, word) /\ Fits(i + Len(word), SpanEnd(s, i + Len(word), "\\s"))

\* /public\s+class\s+/ somewhere in s
PublicClass(s) ==
    LET Fits(a, b) == b > a /\ StartsAt(s, b, "class") /\ b + 5 <= Len(s) /\ IsSpace(CharAt(s, b + 5))
    IN  \E i \in 1..Len(s) : StartsAt(s, i, "public") /\ Fits(i + 6, SpanEnd(s, i + 6, "\\s"))

\* /\.[\w-]+\s*{/ somewhere in s
CssRule(s) ==
    LET Opens(w) == w <= Len(s) /\ CharAt(s, w) = "{"
        Fits(a, e) == e > a /\ Opens(SpanEnd(s, e, "\\s"))
    IN  \E i \in 1..Len(s) : CharAt(s, i) = "." /\ Fits(i + 1, SpanEnd(s, i + 1, "[\\w-]"))

\* /<[\w-]+[\s>]/ somewhere in s
XmlTag(s) ==
    LET Fits(a, e) == e > a /\ e <= Len(s) /\ (IsSpace(CharAt(s, e)) \/ CharAt(s, e) = ">")
    IN  \E i \in 1..Len(s) : CharAt(s, i) = "<" /\ Fits(i + 1, SpanEnd(s, i + 1, "[\\w-]"))

AtLineStart(s, i) == i = 1 \/ IsLineTerminator(CharAt(s, i - 1))

\* /^[\w-]+:\s*$/m somewhere in s
YamlKey(s) ==
    LET AtEnd(k) == k = Len(s) + 1 \/ IsLineTerminator(CharAt(s, k))
        Closes(e, w) == \E k \in (e + 1)..w : AtEnd(k)
        Fits(i, e) == e > i /\ e <= Len(s) /\ CharAt(s, e) = ":" /\ Closes(e, SpanEnd(s, e + 1, "\\s"))
    IN  \E i \in 1..Len(s) : AtLineStart(s, i) /\ Fits(i, SpanEnd(s, i, "[\\w-]"))

\* /^\s*-\s+/m somewhere in s
YamlItem(s) ==
    LET Fits(w) == w < Len(s) /\ CharAt(s, w) = "-" /\ IsSpace(CharAt(s, w + 1))
    IN  \E i \in 1..Len(s) : AtLineStart(s, i) /\ Fits(SpanEnd(s, i, "\\s"))

\* the first character of s after its leading white space is one of the two
FirstCharIn(s, chars) ==
    LET Fits(w) == w <= Len(s) /\ CharAt(s, w) \in chars
    IN  Fits(SpanEnd(s, 1, "\\s"))

\* Object.entries(this.patterns.languages): the languages in the order of the object
Languages == <<"kotlin", "java", "javascript", "html", "css", "json", "xml", "sql", "python",
               "php", "yaml">>

SqlKeywords == {"select", "insert", "update", "delete", "create", "alter"}
HtmlOpenings == {"<!doctype", "<html", "<head", "<body"}

\* this.patterns.languages[language].test(content)
LanguageTest(language, content) ==
    CASE language = "kotlin" ->
            \/ KeywordThenSpace(content, "package")
            \/ KeywordThenWord(content, "class")
            \/ KeywordThenSpace(content, "fun")
      [] language = "java" ->
            \/ KeywordThenOnLine(content, "package", ";")
            \/ PublicClass(content)
            \/ KeywordThenSpace(content, "import")
      [] language = "javascript" ->
            \/ \E word \in {"function", "const", "let", "var"} : KeywordThenSpace(content, word)
            \/ Includes(content, "=>")
      [] language = "html" -> \E opening \in HtmlOpenings : Includes(ToLowerCase(content), opening)
      [] language = "css" ->
            CssRule(content) \/ Includes(content, "@media") \/ Includes(content, "@import")
      [] language = "json" -> FirstCharIn(content, {"{", "["})
      [] language = "xml" -> StartsAt(content, SpanEnd(content, 1, "\\s"), "<?xml") \/ XmlTag(content)
      [] language = "sql" -> \E word \in SqlKeywords : KeywordThenSpace(ToLowerCase(content), word)
      [] language = "python" ->
            \/ KeywordThenSpace(content, "def")
            \/ KeywordThenSpace(content, "import")
            \/ KeywordThenOnLine(content, "from", "import")
            \/ KeywordThenSpace(content, "class")
      [] language = "php" ->
            \/ Includes(content, "<?php")
            \/ KeywordThenSpace(content, "namespace")
            \/ KeywordThenWord(content, "class")
      [] language = "yaml" -> YamlKey(content) \/ YamlItem(content)

\* detectLanguage: the first language whose pattern matches, then the checks on the content
DetectLanguage(content) ==
    LET ByContent ==
            IF Includes(content, "<?xml") THEN "xml"
            ELSE IF Includes(content, "<!DOCTYPE") \/ Includes(content, "<html") THEN "html"
            ELSE IF StartsWith(Trim(content), "{") \/ StartsWith(Trim(content), "[") THEN "json"
            ELSE IF Includes(content, "function ") \/ Includes(content, "=>") THEN "javascript"
            ELSE Null
        FirstOf(matching) == IF matching = {} THEN ByContent ELSE Languages[First(matching)]
    IN  FirstOf({k \in 1..Len(Languages) : LanguageTest(Languages[k], content)})

\* languageExtensions[detectedLanguage]
LanguageExtension(language) ==
    CASE language = "kotlin" -> "kt"
      [] language = "javascript" -> "js"
      [] language = "python" -> "py"
      [] language = "yaml" -> "yml"
      [] OTHER -> language

\* buildFileName
BuildFileName(fileName, detectedLanguage) ==
    IF Includes(fileName, ".") THEN fileName
    ELSE IF detectedLanguage = Null THEN fileName \o ".txt"
    ELSE fileName \o "." \o LanguageExtension(detectedLanguage)

\* generateFileId: 'file_' + Date.now() + '_' + nine random characters; the model numbers
\* the identifiers, so that every call returns a fresh one
GenerateFileId(n) == "file_" \o ToString(n)

(***************************************************************************)
(* CodeExtractor: sections, statistics, manifest, extractFiles.  A record  *)
(* holds the fields id, originalTitle, fileName, extension, language,      *)
(* content, size and lines; its metadata object and the complexity counts  *)
(* of the statistics, which are derived from the content and decide        *)
(* nothing, are left out.                                                  *)
(***************************************************************************)
\* extractFileSection: <<fileData>>, or <<>> where the code returns null
ExtractFileSection(input, currentHeader, endIndex, options, id) ==
    LET FileData(content, finalFileName, detectedLanguage) ==
            [id |-> id, originalTitle |-> currentHeader.title, fileName |-> finalFileName,
             extension |-> GetFileExtension(finalFileName), language |-> detectedLanguage,
             content |-> content, size |-> BlobSize(content), lines |-> LineCount(content)]
        Named(content, detectedLanguage) ==
            FileData(content, BuildFileName(ExtractFileName(currentHeader.title), detectedLanguage),
                     detectedLanguage)
        Cleaned(content) ==
            Named(content, IF options.autoDetectLanguage THEN DetectLanguage(content) ELSE Null)
        Section(content) ==
            IF content = "" THEN <<>>
            ELSE <<Cleaned(IF options.cleanCode THEN CleanCode(content) ELSE content)>>
    IN  Section(Trim(Substring(input, currentHeader.index + Len(currentHeader.fullMatch), endIndex)))

\* resetStats
ResetStats == [totalFiles |-> 0, totalSize |-> 0, byLanguage |-> <<>>, byExtension |-> <<>>]

\* counts[key] = (counts[key] || 0) + 1, counts being an object used as a map
Counted(counts, key) ==
    IF HasKey(counts, key)
    THEN [k \in 1..Len(counts) |-> IF counts[k][1] = key THEN <<key, counts[k][2] + 1>> ELSE counts[k]]
    ELSE Append(counts, <<key, 1>>)

\* updateStats
UpdateStats(st, fileData) ==
    [totalFiles |-> st.totalFiles + 1,
     totalSize |-> st.totalSize + fileData.size,
     byLanguage |-> IF fileData.language = Null THEN st.byLanguage
                    ELSE Counted(st.byLanguage, fileData.language),
     byExtension |-> Counted(st.byExtension, fileData.extension)]

ManifestTitle == "Configurazione Progetto"

\* generateConfigFile: the manifest record.  Its config field is the object that the code
\* serialises into content; content, size and lines, the JSON text and its measures, are
\* not spelled out, nor are the project name, structure and recommendations of the object.
GenerateConfigFile(fs, id) ==
    [id |-> id, originalTitle |-> ManifestTitle, fileName |-> "project-config.json",
     extension |-> "json", language |-> "json",
     config |-> [files |-> [k \in 1..Len(fs) |->
                               [name |-> fs[k].fileName, language |-> fs[k].language,
                                size |-> fs[k].size]]]]

\* the loop of extractFiles over the headers, from headers[i] on; ex is the Extractor's
\* state during the call: [files, stats, ids]
RECURSIVE ExtractSections(_, _, _, _, _)
ExtractSections(ex, input, headers, i, options) ==
    LET Pushed(section) ==
            IF Len(section) = 0 THEN ex
            ELSE [files |-> Append(ex.files, section[1]),
                  stats |-> UpdateStats(ex.stats, section[1]),
                  ids |-> ex.ids + 1]
    IN  IF i > Len(headers) THEN ex
        ELSE ExtractSections(
                 Pushed(ExtractFileSection(input, headers[i],
                                           IF i < Len(headers) THEN headers[i + 1].index
                                           ELSE Len(input),
                                           options, GenerateFileId(ex.ids + 1))),
                 input, headers, i + 1, options)

\* extractFiles after the loop: the manifest
WithConfigFileAlways(ex, options) ==
    IF options.generateConfig
    THEN [ex EXCEPT !.files = Append(@, GenerateConfigFile(ex.files, GenerateFileId(ex.ids + 1))),
                    !.ids = @ + 1]
    ELSE ex
WithConfigFile(ex, options) ==
    IF options.generateConfig /\ Len(ex.files) > 0
    THEN [ex EXCEPT !.files = Append(@, GenerateConfigFile(ex.files, GenerateFileId(ex.ids + 1))),
                    !.ids = @ + 1]
    ELSE ex

\* headers.length === 0
HeadersMissingNever(headers) == Len(headers) < 0
HeadersMissing(headers) == Len(headers) = 0

EmptyInputError == "Input vuoto o non valido"
NoHeadersError == "Nessuna intestazione numerata trovata! Usa il formato: \"1. NomeFile.ext\""

\* the texts and options of the callers
Pieces == <<"1. a.kt", "2. Main", "3.", "fun f()", "", "KOTLIN">>

RECURSIVE LineLists(_)
LineLists(n) ==
    IF n = 0 THEN {<<>>}
    ELSE LET Longer(shorter) ==
                 shorter \cup {Append(l, Pieces[k]) : l \in {x \in shorter : Len(x) = n - 1},
                                                      k \in 1..Len(Pieces)}
         IN  Longer(LineLists(n - 1))

Texts == {Join(l, "\n") : l \in LineLists(MaxLines)}

ExtractInputs ==
    {[text |-> text,
      options |-> [generateConfig |-> g, autoDetectLanguage |-> TRUE, cleanCode |-> c]] :
        text \in Texts, g \in BOOLEAN, c \in BOOLEAN}

NoExtraction == [status |-> "none", error |-> "", files |-> <<>>]

ExtInit ==
    /\ extractedFiles = <<>>
    /\ stats = [totalFiles |-> 0, totalSize |-> 0, byLanguage |-> <<>>]
    /\ fileIds = 0
    /\ extractions = 0
    /\ extractOutcome = NoExtraction

\* extractFiles(input, options): what the call does to the Extractor
ExtractFilesCall(input, maxExtractions) ==
    /\ extractions < maxExtractions
    /\ extractions' = extractions + 1
    /\ IF Trim(input.text) = ""
       THEN /\ extractOutcome' = [status |-> "threw", error |-> EmptyInputError, files |-> <<>>]
            /\ UNCHANGED <<extractedFiles, stats, fileIds>>
       ELSE IF HeadersMissing(FindHeaders(input.text))
       THEN /\ extractedFiles' = <<>>
            /\ stats' = ResetStats
            /\ extractOutcome' = [status |-> "threw", error |-> NoHeadersError, files |-> <<>>]
            /\ UNCHANGED fileIds
       ELSE LET Done(ex) ==
                    /\ extractedFiles' = ex.files
                    /\ stats' = ex.stats
                    /\ fileIds' = ex.ids
                    /\ extractOutcome' = [status |-> "returned", error |-> "", files |-> ex.files]
            IN  Done(WithConfigFile(
                         ExtractSections([files |-> <<>>, stats |-> ResetStats, ids |-> fileIds],
                                         input.text, FindHeaders(input.text), 1,
                                         input.options),
                         input.options))

ExtractFilesOf(input, maxExtractions) ==
    /\ ExtractFilesCall(input, maxExtractions)
    /\ UNCHANGED extractInput
    /\ UNCHANGED <<orgVars, contentVars, appVars>>

ExtractFiles == ExtractFilesOf(extractInput, MaxExtractions)

\* the Extractor while the Organizer is looked at, and the Organizer while the Extractor is
ExtQuiet == ExtInit /\ extractInput = [text |-> "", options |-> [generateConfig |-> TRUE,
                                                                autoDetectLanguage |-> TRUE,
                                                                cleanCode |-> TRUE]]
OrgQuiet == OrgInit /\ inFiles = <<>> /\ inConfig = [kind |-> "null"]

(***************************************************************************)
(* FileOrganizer: splitFileContent and mergeFileContents called directly,  *)
(* on source records as loadFiles makes them.                              *)
(***************************************************************************)
\* the line lists of at most n lines over the given lines
RECURSIVE LinesOver(_, _)
LinesOver(pieces, n) ==
    IF n = 0 THEN {<<>>}
    ELSE LET Longer(shorter) ==
                 shorter \cup {Append(l, pieces[k]) : l \in {x \in shorter : Len(x) = n - 1},
                                                      k \in 1..Len(pieces)}
         IN  Longer(LinesOver(pieces, n - 1))

SplitPieces == <<"val a", "", "}">>
MergePieces == <<"import a.B;", "import a.B", "class X{}">>
SourceNames == <<"a.kt", "Main.test.kt">>
Strategies == {"concatenate", "package_merge", "section_merge", "by_name"}

\* a record of the working set, as loadFiles makes it of a file with that name and content
SourceFile(name, content) ==
    LoadedRecord([id |-> "in_" \o name, fileName |-> name, extension |-> GetFileExtension(name),
                  content |-> content, size |-> BlobSize(content), lines |-> LineCount(content)],
                 "in_" \o name)

\* the lists of 1 to n sources of a mergeFileContents call, the k-th named SourceNames[k]
RECURSIVE SourceLists(_)
SourceLists(n) ==
    IF n = 0 THEN {<<>>}
    ELSE LET Longer(shorter) ==
                 shorter \cup {Append(l, SourceFile(SourceNames[((n - 1) % Len(SourceNames)) + 1],
                                                   Join(lines, "\n"))) :
                                  l \in {x \in shorter : Len(x) = n - 1},
                                  lines \in LinesOver(MergePieces, MaxSourceLines)}
         IN  Longer(SourceLists(n - 1))

NoSplitConfig == [strategy |-> "none"]

\* the splitFileContent calls on a source of at most n lines
SplitCalls(n) ==
    {[method |-> "splitFileContent", sourceFiles |-> <<SourceFile(name, Join(lines, "\n"))>>,
      splitConfig |-> [strategy |-> "by_lines", linesPerFile |-> per], strategy |-> "none"] :
        name \in Range(SourceNames), lines \in LinesOver(SplitPieces, n),
        per \in 0..MaxLinesPerFile}

\* the mergeFileContents calls on 1 to n sources
MergeCalls(n) ==
    {[method |-> "mergeFileContents", sourceFiles |-> sources,
      splitConfig |-> NoSplitConfig, strategy |-> strategy] :
        sources \in SourceLists(n) \ {<<>>}, strategy \in Strategies}

NoResult == [status |-> "none", files |-> <<>>, content |-> ""]

\* splitFileContent(sourceFile, splitConfig)
SplitFileContentCall ==
    /\ contentCall.method = "splitFileContent"
    /\ contentResult = NoResult
    /\ LET Returned(splitFiles) ==
               /\ contentResult' = [status |-> "returned", files |-> splitFiles, content |-> ""]
               /\ idCounter' = idCounter + Len(splitFiles)
       IN  Returned(SplitFileContent(contentCall.sourceFiles[1], contentCall.splitConfig, idCounter))
    /\ UNCHANGED <<files, config, organizationLog, validationResults, organizationReport, run,
                   before, previous, pending, outcome, runs, inFiles, inConfig,
                   consoleWarnings, contentCall>>
    /\ UNCHANGED <<extVars, appVars>>

\* mergeFileContents(sourceFiles, strategy)
MergeFileContentsCall ==
    /\ contentCall.method = "mergeFileContents"
    /\ contentResult = NoResult
    /\ contentResult' = [status |-> "returned", files |-> <<>>,
                         content |-> MergeFileContents(contentCall.sourceFiles,
                                                       contentCall.strategy)]
    /\ UNCHANGED <<orgVars, extVars, contentCall, appVars>>

\* no direct call is made
ContentQuiet ==
    /\ contentCall = [method |-> "none", sourceFiles |-> <<>>, splitConfig |-> NoSplitConfig,
                      strategy |-> "none"]
    /\ contentResult = NoResult

(***************************************************************************)
(* UniversalProjectBuilder: the state of the application.                  *)
(***************************************************************************)
NoProject == [isNull |-> TRUE, files |-> <<>>]
NoArchive == [isNull |-> TRUE, names |-> <<>>]
NoNotification == [type |-> "none", message |-> ""]

\* the constructor: this.state, and no workflow running
AppInit ==
    app = [extractedFiles |-> <<>>, organizedFiles |-> <<>>,
           projectConfig |-> [kind |-> "null"],
           generatedProject |-> NoProject, packagedProject |-> NoArchive,
           downloaded |-> NoArchive, workflowHistory |-> <<>>,
           notification |-> NoNotification,
           isProcessing |-> FALSE,
           workflow |-> "none", step |-> 0, steps |-> <<>>, generations |-> 0]

\* the application while its collaborators are looked at
AppQuiet == AppInit

Init == OrgInit /\ inFiles \in FileLists /\ inConfig \in Configs /\ ExtQuiet /\ ContentQuiet /\ AppQuiet
Spec == Init /\ [][Next]_vars

InitVariants ==
    OrgInit /\ inFiles \in FileLists /\ inConfig \in VariantConfigs /\ ExtQuiet /\ ContentQuiet /\ AppQuiet
SpecVariants == InitVariants /\ [][Next]_vars

(***************************************************************************)
(* FileOrganizer: organizeFiles as the async function it is.  A call runs  *)
(* to its first await, the one of the first section its configuration has: *)
(* applyOperation has no await of its own and applies the whole section    *)
(* before the call is suspended.  A suspended call resumes after the calls *)
(* suspended before it, applies its next section and is suspended again,   *)
(* or finds no section left and validates, reports and returns.            *)
(***************************************************************************)
\* applyOperation: the switch over the operation type, for one entry of the section
ApplyRule(st, operation, section, rule, dryRun) ==
    CASE operation = "fileRenames" -> ApplyFileRename(st, rule, dryRun)
      [] operation = "extensionChanges" -> ApplyExtensionChange(st, rule, dryRun)
      [] operation = "folderMappings" -> ApplyFolderMapping(st, rule, dryRun)
      [] operation = "contentUpdates" -> ApplyContentUpdate(st, rule, dryRun)
      [] operation = "copyToMultipleLocations" -> ApplyCopyToMultipleLocations(st, rule, dryRun)
      [] operation = "mergeFiles" -> ApplyMergeFile(st, section, rule, dryRun)
      [] operation = "splitFiles" -> ApplySplitFile(st, rule, dryRun)

\* applyOperation: the forEach of the apply method over the entries, from entry k on
RECURSIVE ApplyOperationFrom(_, _, _, _, _)
ApplyOperationFrom(st, operation, section, k, dryRun) ==
    LET Rest(after) ==
            IF after.threw THEN after
            ELSE ApplyOperationFrom(after, operation, section, k + 1, dryRun)
    IN  IF k > Len(ObjectEntries(section)) THEN st
        ELSE Rest(ApplyRule(st, operation, section, ObjectEntries(section)[k], dryRun))

ApplyOperation(st, op, dryRun) ==
    ApplyOperationFrom(st, Operations[op], Get(config.data, Operations[op]), 1, dryRun)

\* the call applies section number op and is suspended at the await, behind the calls
\* in waiting; a call whose section throws is over
AppliedAndSuspended(st, waiting, call, op) ==
    /\ files' = st.files
    /\ organizationLog' = st.log
    /\ idCounter' = st.idc
    /\ consoleWarnings' = st.warned
    /\ IF st.threw
       THEN /\ pending' = waiting
            /\ outcome' = [outcome EXCEPT !.organizeFiles = "threw"]
       ELSE /\ pending' = Append(waiting, [call EXCEPT !.op = op + 1])
            /\ outcome' = [outcome EXCEPT !.organizeFiles = "running"]
    /\ UNCHANGED <<validationResults, organizationReport>>

\* the call finds no section left: validation, report, return
Returned(fs, log, warned, waiting, validateResults, generateReport) ==
    /\ validationResults' = IF validateResults THEN ValidateOrganizationResults(fs)
                            ELSE validationResults
    /\ organizationReport' = IF generateReport
                             THEN GenerateOrganizationReport(fs, log, validationResults')
                             ELSE organizationReport
    /\ consoleWarnings' = IF validateResults
                          THEN warned \o ValidationWarned(validationResults') ELSE warned
    /\ organizationLog' = log
    /\ pending' = waiting
    /\ outcome' = [outcome EXCEPT !.organizeFiles = "returned", !.validated = validateResults]
    /\ UNCHANGED <<files, idCounter>>

\* organizeFiles(options) called, up to its first await or, with no section, to its end
OrganizeFilesCalled(dryRun, validateResults, generateReport) ==
    /\ runs < MaxReruns
    /\ runs' = runs + 1
    /\ IF config.isNull \/ ~config.isValid
       THEN /\ outcome' = [outcome EXCEPT !.organizeFiles = "threw"]
            /\ UNCHANGED <<files, organizationLog, validationResults, organizationReport,
                           idCounter, before, previous, pending, consoleWarnings>>
       ELSE /\ before' = files
            /\ previous' = [before |-> before, log |-> organizationLog,
                            returned |-> outcome.organizeFiles = "returned"]
            /\ LET AtFirst(op) ==
                       IF op = Finished
                       THEN Returned(files, <<>>, <<>>, pending, validateResults, generateReport)
                       ELSE AppliedAndSuspended(
                                ApplyOperation([CallState EXCEPT !.log = <<>>, !.warned = <<>>],
                                               op, dryRun),
                                pending,
                                [dryRun |-> dryRun, op |-> op,
                                 validateResults |-> validateResults,
                                 generateReport |-> generateReport],
                                op)
               IN  AtFirst(NextRule(config.data, 1, 1)[1])
    /\ UNCHANGED <<config, run, inFiles, inConfig>>
    /\ UNCHANGED <<extVars, contentVars, appVars>>

\* the call suspended first resumes, with the options it was called with
OrganizeFilesResumed ==
    /\ Len(pending) > 0
    /\ LET AtNext(op) ==
               IF op = Finished
               THEN Returned(files, organizationLog, consoleWarnings, Tail(pending),
                             pending[1].validateResults, pending[1].generateReport)
               ELSE AppliedAndSuspended(ApplyOperation(CallState, op, pending[1].dryRun),
                                        Tail(pending), pending[1], op)
       IN  AtNext(NextRule(config.data, pending[1].op, 1)[1])
    /\ UNCHANGED <<config, run, before, previous, runs, inFiles, inConfig>>
    /\ UNCHANGED <<extVars, contentVars, appVars>>

InitReentrant ==
    OrgInit /\ inFiles \in FileLists /\ inConfig \in Configs /\ ExtQuiet /\ ContentQuiet /\ AppQuiet
NextReentrant ==
    \/ pending = <<>> /\ LoadFiles
    \/ pending = <<>> /\ LoadConfig
    \/ \E dryRun \in BOOLEAN, validateResults \in BOOLEAN, generateReport \in BOOLEAN :
          OrganizeFilesCalled(dryRun, validateResults, generateReport)
    \/ OrganizeFilesResumed
SpecReentrant == InitReentrant /\ [][NextReentrant]_vars

\* repeated calls: configurations of one section, up to MaxReruns organizeFiles calls
RerunConfigs == {Obj(<<choice>>) : choice \in SectionChoices}
\* what a caller may pass to loadConfig by mistake
MalformedConfigs ==
    {[kind |-> "null"], Obj(<< <<"folderMappings", Obj(<< <<"a.kt", "../etc">> >>)>> >>)}
InitRerun ==
    OrgInit /\ inFiles \in FileLists /\ inConfig \in RerunConfigs /\ ExtQuiet /\ ContentQuiet /\ AppQuiet
NextRerun ==
    \/ LoadFiles
    \/ LoadConfig
    \/ \E raw \in MalformedConfigs : LoadConfigOf(raw)
    \/ \E k \in 1..Len(files) : RemoveUploadedFile(files[k].id)
    \/ \E dryRun \in BOOLEAN : OrganizeFilesStartWithin(dryRun, MaxReruns)
    \/ FileRenamesStep
    \/ ExtensionChangesStep
    \/ FolderMappingsStep
    \/ ContentUpdatesStep
    \/ CopyToMultipleLocationsStep
    \/ MergeFilesStep
    \/ SplitFilesStep
    \/ \E validateResults \in BOOLEAN, generateReport \in BOOLEAN :
          OrganizeFilesEnd(validateResults, generateReport)
SpecRerun == InitRerun /\ [][NextRerun]_vars

\* consecutive calls: the working set and the configuration are loaded before the first
\* organizeFiles call and nothing but organizeFiles is called from then on
InitRepeat ==
    OrgInit /\ inFiles \in FileLists /\ inConfig \in Configs /\ ExtQuiet /\ ContentQuiet /\ AppQuiet
NextRepeat ==
    \/ (runs = 0 /\ LoadFiles)
    \/ (runs = 0 /\ LoadConfig)
    \/ \E dryRun \in BOOLEAN : OrganizeFilesStartWithin(dryRun, MaxReruns)
    \/ FileRenamesStep
    \/ ExtensionChangesStep
    \/ FolderMappingsStep
    \/ ContentUpdatesStep
    \/ CopyToMultipleLocationsStep
    \/ MergeFilesStep
    \/ SplitFilesStep
    \/ \E validateResults \in BOOLEAN, generateReport \in BOOLEAN :
          OrganizeFilesEnd(validateResults, generateReport)
SpecRepeat == InitRepeat /\ [][NextRepeat]_vars

InitExtract == OrgQuiet /\ ExtInit /\ extractInput \in ExtractInputs /\ ContentQuiet /\ AppQuiet
NextExtract == ExtractFiles
SpecExtract == InitExtract /\ [][NextExtract]_vars

\* repeated calls: up to MaxReextractions extractFiles calls, each with the pasted text or
\* with an empty one
RetryInputs ==
    {[text |-> Join(l, "\n"),
      options |-> [generateConfig |-> g, autoDetectLanguage |-> TRUE, cleanCode |-> TRUE]] :
        l \in LineLists(MaxRetryLines), g \in BOOLEAN}
BlankTexts == {"", " \n"}
InitReextract == OrgQuiet /\ ExtInit /\ extractInput \in RetryInputs /\ ContentQuiet /\ AppQuiet
NextReextract ==
    \/ ExtractFilesOf(extractInput, MaxReextractions)
    \/ \E blank \in BlankTexts :
          ExtractFilesOf([extractInput EXCEPT !.text = blank], MaxReextractions)
SpecReextract == InitReextract /\ [][NextReextract]_vars

(***************************************************************************)
(* UniversalProjectBuilder: extractCode, handleFileUpload, generateProject *)
(* and the steps of its workflows.  state.projectConfig stays null unless  *)
(* loadConfiguration is among the actions.  The messages are those of the  *)
(* code without their leading emoji.                                       *)
(***************************************************************************)
\* this.workflows: the steps of each
Workflows ==
    [codeToFiles |-> <<"extract", "organize", "download">>,
     androidProject |-> <<"extract", "validate_android", "generate_android", "package">>,
     webProject |-> <<"extract", "validate_web", "generate_web", "package">>,
     customOrganization |-> <<"load_files", "apply_config", "validate", "export">>]

\* counts[key] of an object used as a map, 0 for undefined
CountOf(counts, key) == IF HasKey(counts, key) THEN Get(counts, key) ELSE 0

\* CodeExtractor.guessProjectType
GuessProjectType ==
    IF CountOf(stats.byLanguage, "kotlin") > 0 \/ CountOf(stats.byLanguage, "java") > 0
    THEN "android"
    ELSE IF CountOf(stats.byLanguage, "javascript") > 0 /\ CountOf(stats.byLanguage, "html") > 0
    THEN "web"
    ELSE IF CountOf(stats.byLanguage, "python") > 0 THEN "python"
    ELSE "generic"

\* determineProjectType
DetermineProjectType ==
    IF GuessProjectType = "android" THEN "android"
    ELSE IF GuessProjectType = "web" THEN "web"
    ELSE "generic"

\* this.workflows[projectType + 'Project'] || this.workflows.codeToFiles
WorkflowOf(projectType) ==
    IF (projectType \o "Project") \in DOMAIN Workflows THEN projectType \o "Project"
    ELSE "codeToFiles"

\* showNotification
Notified(a, type, message) == [a EXCEPT !.notification = [type |-> type, message |-> message]]

\* setProcessing
SetProcessing(a, isProcessing) == [a EXCEPT !.isProcessing = isProcessing]

\* extractCode: the call of extractFiles, which a blank textarea does not get to
ExtractCodeCall ==
    IF Trim(extractInput.text) = ""
    THEN UNCHANGED <<extractedFiles, stats, fileIds, extractions, extractOutcome>>
    ELSE ExtractFilesCall(extractInput, MaxReextractions)

\* extractCode: what it leaves in the state of the application.  With a blank text it
\* returns before its try; otherwise its finally ends with setProcessing(false)
AfterExtractCode(a) ==
    IF Trim(extractInput.text) = "" THEN Notified(a, "error", "Inserisci del codice da estrarre")
    ELSE IF extractOutcome'.status = "returned"
    THEN SetProcessing(Notified([a EXCEPT !.extractedFiles = extractOutcome'.files,
                                          !.workflowHistory = Append(@, "extract")],
                                "success",
                                ToString(Len(extractOutcome'.files))
                                    \o " file estratti con successo!"),
                       FALSE)
    ELSE SetProcessing(Notified(a, "error", "Errore nell'estrazione: " \o extractOutcome'.error),
                       FALSE)

\* extractCode, from its button or Ctrl+E
ExtractCode ==
    /\ app.step = 0
    /\ ExtractCodeCall
    /\ app' = AfterExtractCode(app)
    /\ UNCHANGED extractInput
    /\ UNCHANGED <<orgVars, contentVars>>

\* handleFileUpload(files), with files that validateUploadedFile lets through
HandleFileUpload ==
    /\ app.step = 0
    /\ LoadFilesOf(inFiles)
    /\ app' = SetProcessing(Notified([app EXCEPT !.organizedFiles = inFiles], "success",
                                     ToString(Len(inFiles)) \o " file caricati con successo!"),
                            FALSE)
    /\ UNCHANGED <<config, organizationLog, validationResults, organizationReport, run, before,
                   previous, pending, outcome, runs, inFiles, inConfig, consoleWarnings>>
    /\ UNCHANGED <<extVars, contentVars>>

\* generateProject, from its button or Ctrl+G, up to the loop over the steps
GenerateProject ==
    /\ app.step = 0
    /\ app.generations < MaxGenerations
    /\ app' = [SetProcessing(app, TRUE) EXCEPT !.workflow = WorkflowOf(DetermineProjectType),
                                               !.step = 1, !.steps = <<>>,
                                               !.generations = @ + 1]
    /\ UNCHANGED <<orgVars, extVars, contentVars>>

\* what a step leaves, and the error it throws if it does
StepDone(a) == [app |-> a, threw |-> FALSE, error |-> ""]
StepThrew(a, message) == [app |-> a, threw |-> TRUE, error |-> message]

HasExtension(fs, extensions) == \E k \in 1..Len(fs) : fs[k].extension \in extensions

\* validateAndroidProject
ValidateAndroidProject(a) ==
    IF ~HasExtension(a.extractedFiles, {"kt"}) /\ ~HasExtension(a.extractedFiles, {"java"})
    THEN StepThrew(a, "Nessun file Kotlin o Java trovato per progetto Android")
    ELSE StepDone(a)

\* validateWebProject
ValidateWebProject(a) ==
    IF ~HasExtension(a.extractedFiles, {"html", "css", "js", "jsx", "ts", "tsx"})
    THEN StepThrew(a, "Nessun file web trovato")
    ELSE StepDone(a)

\* AndroidBuilder.generateProject, with the package name that getAndroidProjectConfig
\* gives when the page has none
AndroidProject ==
    [isNull |-> FALSE,
     files |-> <<[name |-> "MainActivity.kt",
                  content |-> "package com.example.myapp\n\nclass MainActivity { }"]>>]

\* WebBuilder.generateProject, likewise
WebProject ==
    [isNull |-> FALSE,
     files |-> <<[name |-> "index.html",
                  content |-> "<!DOCTYPE html><html><head><title>my-web-app</title></head>"
                              \o "<body><h1>Hello World</h1></body></html>"]>>]

\* generateAndroidProject, generateWebProject
GenerateAndroidProject(a) == StepDone([a EXCEPT !.generatedProject = AndroidProject])
GenerateWebProject(a) == StepDone([a EXCEPT !.generatedProject = WebProject])

\* ZipBuilder.createProjectZip, createSimpleZip: the entries of the archive,
\* file.fileName || file.name
ArchiveOf(fs) ==
    [isNull |-> FALSE,
     names |-> [k \in 1..Len(fs) |-> IF Falsy(Field(fs[k], "fileName")) THEN fs[k].name
                                     ELSE fs[k].fileName]]

\* packageProject.  The condition of its conditional expression is
\* generatedProject || organizedFiles.length > 0
PackageProject(a) ==
    LET Packaged(filesToPackage) ==
            IF Len(filesToPackage) = 0 THEN StepThrew(a, "Nessun file da impacchettare")
            ELSE StepDone([a EXCEPT !.packagedProject = ArchiveOf(filesToPackage)])
    IN  Packaged(IF ~a.generatedProject.isNull \/ Len(a.organizedFiles) > 0
                 THEN a.organizedFiles ELSE a.extractedFiles)

\* downloadResult
DownloadResult(a) ==
    LET Simple(filesToDownload) ==
            IF Len(filesToDownload) = 0 THEN Notified(a, "error", "Nessun file da scaricare")
            ELSE Notified([a EXCEPT !.downloaded = ArchiveOf(filesToDownload)],
                          "success", "Download avviato!")
    IN  IF ~a.packagedProject.isNull
        THEN StepDone(Notified([a EXCEPT !.downloaded = a.packagedProject],
                               "success", "Download avviato!"))
        ELSE StepDone(Simple(IF Len(a.organizedFiles) > 0 THEN a.organizedFiles
                             ELSE a.extractedFiles))

\* loadConfiguration, with the file chosen and read: its content parses to inConfig
LoadConfiguration ==
    /\ app.step = 0
    /\ LET Checked(validation) ==
               IF ~validation.isValid
               THEN /\ app' = SetProcessing(Notified(app, "error",
                                                     "Errore nella configurazione: "
                                                         \o Join(validation.errors, ", ")),
                                            FALSE)
                    /\ UNCHANGED <<config, outcome>>
               ELSE /\ config' = validation
                    /\ outcome' = [outcome EXCEPT !.loadConfig = "returned"]
                    /\ app' = SetProcessing(
                                  IF Len(validation.warnings) > 0
                                  THEN Notified([app EXCEPT !.projectConfig = inConfig], "warning",
                                                "Configurazione caricata con avvisi: "
                                                    \o Join(validation.warnings, ", "))
                                  ELSE Notified([app EXCEPT !.projectConfig = inConfig], "success",
                                                "Configurazione caricata con successo!"),
                                  FALSE)
       IN  Checked(ValidateAndNormalizeConfig(inConfig))
    /\ UNCHANGED <<files, organizationLog, validationResults, organizationReport, idCounter, run,
                   before, previous, pending, runs, inFiles, inConfig, consoleWarnings>>
    /\ UNCHANGED <<extVars, contentVars>>

\* organizeFiles of the application: the files it means to organize
FilesToOrganize(a) ==
    IF Len(a.extractedFiles) > 0 THEN a.extractedFiles ELSE a.organizedFiles

\* the working set the Organizer runs on: loaded only if (this.fileOrganizer.files.length === 0)
WorkingSetFor(a) ==
    IF Len(files) = 0 THEN Loaded(FilesToOrganize(a))
    ELSE [files |-> files, idc |-> idCounter]

\* FileOrganizer.organizeFiles from its loop on, its awaits resumed one after the other
\* with no other call in between: the sections from number op on, in the order of the pipeline
RECURSIVE OrganizedFrom(_, _)
OrganizedFrom(st, op) ==
    IF st.threw \/ op > Len(Operations) THEN st
    ELSE OrganizedFrom(IF SectionPresent(config.data, Operations[op])
                       THEN ApplyOperation(st, op, FALSE) ELSE st,
                       op + 1)

\* what the organize step does to the Organizer: nothing when organizeFiles of the
\* application throws first, else loadFiles if the Organizer holds no file and
\* organizeFiles({dryRun: false, validateResults: true, generateReport: true})
OrganizeFilesCall(a) ==
    LET Organized(st) ==
            /\ files' = st.files
            /\ idCounter' = st.idc
            /\ organizationLog' = st.log
            /\ IF st.threw
               THEN /\ outcome' = [outcome EXCEPT !.organizeFiles = "threw"]
                    /\ consoleWarnings' = st.warned
                    /\ UNCHANGED <<validationResults, organizationReport>>
               ELSE /\ validationResults' = ValidateOrganizationResults(st.files)
                    /\ organizationReport' =
                          GenerateOrganizationReport(st.files, st.log, validationResults')
                    /\ consoleWarnings' = st.warned \o ValidationWarned(validationResults')
                    /\ outcome' = [outcome EXCEPT !.organizeFiles = "returned",
                                                  !.validated = TRUE]
        Run(set) ==
            IF config.isNull \/ ~config.isValid
            THEN /\ files' = set.files
                 /\ idCounter' = set.idc
                 /\ outcome' = [outcome EXCEPT !.organizeFiles = "threw"]
                 /\ UNCHANGED <<organizationLog, validationResults, organizationReport, before,
                                previous, consoleWarnings>>
            ELSE /\ before' = set.files
                 /\ previous' = [before |-> before, log |-> organizationLog,
                                 returned |-> outcome.organizeFiles = "returned"]
                 /\ Organized(OrganizedFrom([files |-> set.files, log |-> <<>>, idc |-> set.idc,
                                             threw |-> FALSE, warned |-> <<>>], 1))
    IN  IF Len(FilesToOrganize(a)) = 0
        THEN UNCHANGED <<files, organizationLog, validationResults, organizationReport, idCounter,
                         before, previous, outcome, runs, consoleWarnings>>
        ELSE runs' = runs + 1 /\ Run(WorkingSetFor(a))

\* organizeFiles of the application: what it leaves in the state and the error it throws
AfterOrganizeFiles(a) ==
    IF Len(FilesToOrganize(a)) = 0 THEN StepThrew(a, "Nessun file da organizzare")
    ELSE IF outcome'.organizeFiles = "threw"
    THEN StepThrew(a, IF config.isNull \/ ~config.isValid
                      THEN "Configurazione non caricata o non valida"
                      ELSE "sourceFiles.map is not a function")
    ELSE StepDone([a EXCEPT !.organizedFiles = files'])

\* executeWorkflowStep: the switch, for the steps that call neither extractCode nor
\* organizeFiles
StepOf(a, step) ==
    CASE step = "validate_android" -> ValidateAndroidProject(a)
      [] step = "validate_web" -> ValidateWebProject(a)
      [] step = "generate_android" -> GenerateAndroidProject(a)
      [] step = "generate_web" -> GenerateWebProject(a)
      [] step = "package" -> PackageProject(a)
      [] step = "download" -> DownloadResult(a)
      [] OTHER -> StepDone(a)

\* one turn of the loop of generateProject: executeWorkflowStep and logWorkflowStep, then
\* the next step, the notification of success after the last one, or the catch; the
\* finally of generateProject ends with setProcessing(false)
ExecuteWorkflowStep ==
    /\ app.step > 0
    /\ LET Ended(step, result) ==
               app' = IF result.threw
                      THEN SetProcessing(Notified([result.app EXCEPT !.step = 0], "error",
                                                  "Errore nella generazione: " \o result.error),
                                         FALSE)
                      ELSE IF app.step = Len(Workflows[app.workflow])
                      THEN SetProcessing(
                               Notified([result.app EXCEPT !.workflowHistory = Append(@, step),
                                                           !.steps = Append(@, step),
                                                           !.step = 0],
                                        "success", "Progetto generato con successo!"),
                               FALSE)
                      ELSE [result.app EXCEPT !.workflowHistory = Append(@, step),
                                              !.steps = Append(@, step),
                                              !.step = @ + 1]
           At(step) ==
               IF step = "extract" /\ Len(app.extractedFiles) = 0
               THEN /\ ExtractCodeCall
                    /\ UNCHANGED <<files, organizationLog, validationResults, organizationReport,
                                   idCounter, before, previous, outcome, runs, consoleWarnings>>
                    /\ Ended(step, StepDone(AfterExtractCode(app)))
               ELSE IF step = "organize" /\ app.projectConfig.kind # "null"
               THEN /\ OrganizeFilesCall(app)
                    /\ UNCHANGED <<extractedFiles, stats, fileIds, extractions, extractOutcome>>
                    /\ Ended(step, AfterOrganizeFiles(app))
               ELSE /\ UNCHANGED <<extractedFiles, stats, fileIds, extractions, extractOutcome>>
                    /\ UNCHANGED <<files, organizationLog, validationResults, organizationReport,
                                   idCounter, before, previous, outcome, runs, consoleWarnings>>
                    /\ Ended(step, StepOf(app, IF step = "extract" THEN "none" ELSE step))
       IN  At(Workflows[app.workflow][app.step])
    /\ UNCHANGED <<config, run, pending, inFiles, inConfig, extractInput>>
    /\ UNCHANGED contentVars

InitWorkflow ==
    /\ OrgInit /\ inFiles \in FileLists /\ inConfig = [kind |-> "null"]
    /\ ExtInit /\ extractInput \in RetryInputs
    /\ ContentQuiet /\ AppInit
NextWorkflow == ExtractCode \/ HandleFileUpload \/ GenerateProject \/ ExecuteWorkflowStep
SpecWorkflow == InitWorkflow /\ [][NextWorkflow]_vars

\* the application with a configuration file to load: one section that moves, merges or
\* splits, some with a folder the validation refuses; the generateConfig box is unchecked
AppConfigs ==
    {Obj(<<choice>>) : choice \in {c \in SectionChoices :
                                     c[1] \in {"folderMappings", "mergeFiles", "splitFiles"}}}
InitApp ==
    /\ OrgInit /\ inFiles \in FileLists /\ inConfig \in AppConfigs
    /\ ExtInit /\ extractInput \in {input \in RetryInputs : ~input.options.generateConfig}
    /\ ContentQuiet /\ AppInit
NextApp ==
    \/ ExtractCode
    \/ HandleFileUpload
    \/ LoadConfiguration
    \/ GenerateProject
    \/ ExecuteWorkflowStep
SpecApp == InitApp /\ [][NextApp]_vars

InitContent == OrgQuiet /\ ExtQuiet /\ AppQuiet /\ contentResult = NoResult
    /\ contentCall \in SplitCalls(MaxSplitLines) \cup MergeCalls(MaxSources)
NextContent == SplitFileContentCall \/ MergeFileContentsCall
SpecContent == InitContent /\ [][NextContent]_vars

(***************************************************************************)
(* What the claims speak of.                                               *)
(***************************************************************************)
\* the place of a log entry's type in the pipeline
TypeRank(type) ==
    CASE type = "rename" -> 1
      [] type = "changeExtension" -> 2
      [] type = "move" -> 3
      [] type = "updateContent" -> 4
      [] type = "copy" -> 5
      [] type = "merge" -> 6
      [] type = "split" -> 7

\* a non-dry call is at the given operation, about to apply CurrentRule
Applying(operation) == AtOperation(operation) /\ ~run.dryRun

\* the step that ends an organizeFiles call normally
Returning == run.active /\ run.op = Finished

ValidationErrors(v) == IF v.defined THEN v.errors ELSE <<>>

\* the paths a "File duplicati" error names
DuplicatesPrefix == "File duplicati: "
ReportedDuplicates(v) ==
    LET hits == SelectSeq(ValidationErrors(v), LAMBDA e : StartsWith(e, DuplicatesPrefix))
    IN  IF Len(hits) = 0 THEN {}
        ELSE Range(Split(SubSeq(hits[1], Len(DuplicatesPrefix) + 1, Len(hits[1])), ", "))

\* a section of the caller's configuration, when it is an object holding that section
InputSection(key) ==
    IF inConfig.kind = "object" /\ HasKey(inConfig.entries, key)
       /\ Get(inConfig.entries, key).kind = "object"
    THEN Get(inConfig.entries, key).entries
    ELSE <<>>

\* C1: in the operation log of a run no entry of a later operation type comes before an
\* entry of an earlier type, whatever the order of the keys in the configuration
C1_LogFollowsPipelineOrder ==
    \A i, j \in 1..Len(organizationLog) :
        i < j => TypeRank(organizationLog[i].type) <= TypeRank(organizationLog[j].type)

C1_Witness ==
    /\ outcome.organizeFiles = "returned"
    /\ Len(config.data) = 2
    /\ OperationNumber(config.data[1][1]) > OperationNumber(config.data[2][1])
    /\ \E i, j \in 1..Len(organizationLog) :
          i < j /\ TypeRank(organizationLog[i].type) < TypeRank(organizationLog[j].type)

\* C2: every step of a dry-run organizeFiles call leaves the working set as it is (no
\* record added, no field of a record changed), and every entry of the log of the call
\* is marked dryRun
C2_DryRunChangesNothing ==
    [][(run.active /\ run.dryRun) =>
          /\ files' = files
          /\ files' = before
          /\ \A k \in 1..Len(organizationLog') : organizationLog'[k].dryRun]_vars

C2_Witness ==
    /\ outcome.organizeFiles = "returned"
    /\ Len(organizationLog) >= 2
    /\ \A k \in 1..Len(organizationLog) : organizationLog[k].dryRun
    /\ \E k \in 1..Len(organizationLog) : organizationLog[k].type \in {"merge", "split", "copy"}
    /\ files = before
    /\ Len(files) > 0

\* the records of the working set that carry the key before record i
EarlierCarrier(fs, i, key) ==
    \E j \in 1..(i - 1) : fs[j].fileName = key \/ fs[j].originalPath = key \/ fs[j].currentPath = key

RenamedInThisRun(i) ==
    /\ i <= Len(before)
    /\ \E k \in (Len(before[i].operations) + 1)..Len(files[i].operations) :
          files[i].operations[k].type = "rename"

UnsafeFolderMapping ==
    \E m \in 1..Len(InputSection("folderMappings")) :
        LET folderPath == InputSection("folderMappings")[m][2]
        IN  Includes(folderPath, "..") \/ StartsWith(folderPath, "/")

Untouched(f) == f.status = "pending" /\ f.operations = <<>> /\ f.currentPath = f.fileName

\* C4: a configuration with a folderMappings value that contains '..' or starts with '/'
\* is invalid with a non-empty errors list, loadConfig throws on it, organizeFiles
\* refuses to run, and nothing is ever applied to the working set
C4_UnsafeFolderMappingNeverRuns ==
    UnsafeFolderMapping =>
        /\ ~ValidateAndNormalizeConfig(inConfig).isValid
        /\ Len(ValidateAndNormalizeConfig(inConfig).errors) > 0
        /\ outcome.loadConfig \in {"none", "threw"}
        /\ outcome.organizeFiles \in {"none", "threw"}
        /\ ~run.active
        /\ organizationLog = <<>>
        /\ \A i \in 1..Len(files) : Untouched(files[i])

C4_Witness ==
    /\ UnsafeFolderMapping
    /\ outcome.loadConfig = "threw"
    /\ outcome.organizeFiles = "threw"
    /\ Len(files) > 0
    /\ ~config.isNull

\* a destination of a copyToMultipleLocations rule of the caller's configuration has an
\* unsafe folder or name
UnsafeCopyDestination ==
    \E m \in 1..Len(InputSection("copyToMultipleLocations")) :
        LET locations == InputSection("copyToMultipleLocations")[m][2]
        IN  /\ locations.kind = "array"
            /\ \E k \in 1..Len(locations.items) :
                  \/ ~Falsy(Field(locations.items[k], "folder"))
                     /\ (Includes(locations.items[k].folder, "..")
                         \/ StartsWith(locations.items[k].folder, "/"))
                  \/ ~Falsy(Field(locations.items[k], "name"))
                     /\ (Includes(locations.items[k].name, "..")
                         \/ StartsWith(locations.items[k].name, "/"))

\* C5: a configuration with an unsafe copy destination is rejected by the validator:
\* loadConfig never accepts it
C5_UnsafeCopyDestinationRejected ==
    UnsafeCopyDestination => outcome.loadConfig # "returned"

\* two records of a working set share the path
SharedPath(fs, path) == \E i, j \in 1..Len(fs) : i # j /\ fs[i].currentPath = path /\ fs[j].currentPath = path

NamedInAnError(v, path) == \E k \in 1..Len(ValidationErrors(v)) : Includes(ValidationErrors(v)[k], path)

IsLive(f) == f.status \notin {"merged_source", "split_source"}

\* C7: a path is reported as duplicated only when at least two live records (status
\* neither merged_source nor split_source) share it
C7_OnlyLiveRecordsCount ==
    [][(Returning /\ outcome'.validated) =>
          \A path \in ReportedDuplicates(validationResults') :
              \E i, j \in 1..Len(files') :
                  /\ i # j
                  /\ IsLive(files'[i]) /\ IsLive(files'[j])
                  /\ files'[i].currentPath = path /\ files'[j].currentPath = path]_vars

\* how many times the index stands in a list of indices
Occurrences(indices, i) == Cardinality({k \in 1..Len(indices) : indices[k] = i})

\* the declared source names of a merge rule that some record carries, as the indices of
\* the records they resolve to, in declared order
Resolved(fs, names) ==
    SelectSeq([k \in 1..Len(names) |->
                  IF \E i \in 1..Len(fs) : names[k] \in {fs[i].fileName, fs[i].originalPath, fs[i].currentPath}
                  THEN First({i \in 1..Len(fs) : names[k] \in {fs[i].fileName, fs[i].originalPath,
                                                               fs[i].currentPath}})
                  ELSE 0],
              LAMBDA i : i # 0)

MergedIntoEntries(f, g) ==
    Cardinality({k \in (Len(f.operations) + 1)..Len(g.operations) : g.operations[k].type = "merged_into"})

\* a non-dry merge rule with a list of sources, at least one of which resolves
MergingRule ==
    /\ Applying("mergeFiles")
    /\ CurrentRule[2].kind = "array"
    /\ Len(Resolved(files, CurrentRule[2].items)) > 0

\* what C10 says of a merge but for the number of merged_into entries: one record more,
\* the merged record, with the ids of the resolved sources in declared order; every
\* record stays, an unresolved name is left out without an error
MergeAddsOneRecord ==
    /\ run'.active
    /\ Len(files') = Len(files) + 1
    /\ files'[Len(files')].status = "merged"
    /\ files'[Len(files')].fileName = CurrentRule[1]
    /\ files'[Len(files')].sourceFileIds =
          [k \in 1..Len(Resolved(files, CurrentRule[2].items)) |->
              files[Resolved(files, CurrentRule[2].items)[k]].id]
    /\ \A i \in 1..Len(files) :
          /\ files'[i].id = files[i].id
          /\ files'[i].content = files[i].content
          /\ files'[i].currentPath = files[i].currentPath
          /\ Occurrences(Resolved(files, CurrentRule[2].items), i) = 0 => files'[i] = files[i]
          /\ Occurrences(Resolved(files, CurrentRule[2].items), i) > 0
                => files'[i].status = "merged_source"

\* C10 as stated: each resolved source gets exactly one merged_into entry
C10_AsStated ==
    [][MergingRule =>
          /\ MergeAddsOneRecord
          /\ \A i \in 1..Len(files) :
                Occurrences(Resolved(files, CurrentRule[2].items), i) > 0
                    => /\ Len(files'[i].operations) = Len(files[i].operations) + 1
                       /\ MergedIntoEntries(files[i], files'[i]) = 1]_vars

\* C10 amended: a non-dry merge rule with at least one resolvable source adds exactly one
\* merged record whose sourceFileIds are the ids the declared names resolve to, in
\* declared order; each source stays in the working set with status merged_source and
\* gets one merged_into entry for each declared name that resolves to it; a name that
\* resolves to no record is left out without an error
C10_MergeKeepsSources ==
    [][MergingRule =>
          /\ MergeAddsOneRecord
          /\ \A i \in 1..Len(files) :
                /\ Len(files'[i].operations) = Len(files[i].operations)
                      + Occurrences(Resolved(files, CurrentRule[2].items), i)
                /\ MergedIntoEntries(files[i], files'[i])
                      = Occurrences(Resolved(files, CurrentRule[2].items), i)]_vars

C10_Witness ==
    /\ outcome.organizeFiles = "returned"
    /\ Len(files) = Len(before) + 1
    /\ files[Len(files)].status = "merged"
    /\ Len(files[Len(files)].sourceFileIds) = 2
    /\ Len(files[Len(files)].operations[1].sourceFiles) = 3
    /\ \A i \in 1..Len(before) :
          /\ files[i].status = "merged_source"
          /\ files[i].operations = <<[type |-> "merged_into", mergedFile |-> "m.kt"]>>

(***************************************************************************)
(* The numbered headers of a text, told from the text alone: a header      *)
(* starts at the start of a line with digits and a period; its title       *)
(* starts at the last place after the period that white space alone        *)
(* separates from the period and that holds a character of a line, and     *)
(* runs to the end of that line; a header does not start inside another.   *)
(***************************************************************************)
text == extractInput.text

CharsOf(s) == 1..Len(s)

\* the place of the period of a header that starts at p, 0 when no header can start at p
PeriodOf(s, p) ==
    IF (p = 1 \/ (p \in CharsOf(s) /\ SubSeq(s, p - 1, p - 1) \in {"\n", "\r"}))
       /\ \E d \in CharsOf(s) :
             d > p /\ SubSeq(s, d, d) = "." /\ \A m \in p..(d - 1) : SubSeq(s, m, m) \in Digits
    THEN CHOOSE d \in CharsOf(s) :
             d > p /\ SubSeq(s, d, d) = "." /\ \A m \in p..(d - 1) : SubSeq(s, m, m) \in Digits
    ELSE 0

\* the places where the title of a header with its period at d can start
TitleStarts(s, d) ==
    {t \in CharsOf(s) : /\ t > d
                        /\ SubSeq(s, t, t) \notin {"\n", "\r"}
                        /\ \A m \in (d + 1)..(t - 1) : SubSeq(s, m, m) \in {" ", "\t", "\n", "\r"}}

\* the header that can start at p: <<start of the title, place after the header>>, <<0, 0>>
\* when none can
HeaderFrom(s, p) ==
    LET Ending(t) == <<t, First({e \in t..(Len(s) + 1) :
                                    e = Len(s) + 1 \/ SubSeq(s, e, e) \in {"\n", "\r"}})>>
        Titled(ts) == IF ts = {} THEN <<0, 0>> ELSE Ending(Last(ts))
        After(d) == IF d = 0 THEN <<0, 0>> ELSE Titled(TitleStarts(s, d))
    IN  After(PeriodOf(s, p))

\* the headers of the text, a set of <<start, start of the title, place after the header>>
Headers(s) ==
    LET Add(hs, p, h) ==
            IF h[1] # 0 /\ \A g \in hs : g[3] <= p THEN hs \cup {<<p, h[1], h[2]>>} ELSE hs
        upTo[p \in 0..Len(s)] ==
            IF p = 0 THEN {} ELSE Add(upTo[p - 1], p, HeaderFrom(s, p))
    IN  upTo[Len(s)]

\* the body of header h among the headers hs: what stands between it and the next header,
\* or the end of the text, trimmed
BodyOf(s, hs, h) ==
    Trim(SubSeq(s, h[3],
                IF \E g \in hs : g[1] > h[1]
                THEN First({g[1] : g \in {f \in hs : f[1] > h[1]}}) - 1
                ELSE Len(s)))

TitleOf(s, h) == Trim(SubSeq(s, h[2], h[3] - 1))

\* the headers that have a body
WithBody(s, hs) == {h \in hs : BodyOf(s, hs, h) # ""}

FullSections(s) == WithBody(s, Headers(s))

\* the titles of a set of headers, in the order of the headers
TitlesInOrder(s, hs) ==
    [k \in 1..Cardinality(hs) |->
        TitleOf(s, CHOOSE h \in hs : Cardinality({g \in hs : g[1] < h[1]}) = k - 1)]

IsManifest(file) == "config" \in DOMAIN file

\* the records are those of the titles, in their order, then the manifest when there is one
RecordsFollow(records, titles, manifest) ==
    /\ Len(records) = Len(titles) + (IF manifest /\ Len(titles) > 0 THEN 1 ELSE 0)
    /\ \A k \in 1..Len(titles) :
          ~IsManifest(records[k]) /\ records[k].originalTitle = titles[k]
    /\ \A k \in (Len(titles) + 1)..Len(records) : IsManifest(records[k])

C9_WitnessEmpty ==
    /\ extractOutcome.status = "threw"
    /\ extractOutcome.error = EmptyInputError
    /\ Len(text) > 0

\* the mergeFiles section of the call names one of the three strategies as its mergeStrategy
StrategyGiven ==
    /\ HasKey(ObjectEntries(CurrentSection), "mergeStrategy")
    /\ Get(ObjectEntries(CurrentSection), "mergeStrategy").kind = "string"
    /\ Get(ObjectEntries(CurrentSection), "mergeStrategy").value
          \in {"concatenate", "package_merge", "section_merge"}

\* C11: with concatenate, package_merge or section_merge given as mergeStrategy of the
\* mergeFiles section, no step of organizeFiles over that section ends the call with an
\* exception: the call goes on to completion
C11_MergeWithStrategyCompletes ==
    [][(AtOperation("mergeFiles") /\ StrategyGiven) => outcome'.organizeFiles # "threw"]_vars

\* the records of a working set that carry the name, as fileName, originalPath or currentPath
Carriers(fs, name) ==
    {i \in 1..Len(fs) : name \in {fs[i].fileName, fs[i].originalPath, fs[i].currentPath}}

\* a non-dry copy rule whose file name some record carries
CopyingRule ==
    /\ Applying("copyToMultipleLocations")
    /\ CurrentRule[2].kind = "array"
    /\ Carriers(files, CurrentRule[1]) # {}

\* C12: a non-dry copyToMultipleLocations rule with k destinations appends exactly k
\* records with status copied and the id of the source as originalFileId, writes exactly
\* k log entries, all of type copy, and leaves the source and every other record as
\* they were
C12_CopyAppendsAndKeepsSource ==
    [][CopyingRule =>
          /\ Len(files') = Len(files) + Len(CurrentRule[2].items)
          /\ \A i \in 1..Len(files) : files'[i] = files[i]
          /\ \A j \in (Len(files) + 1)..Len(files') :
                /\ files'[j].status = "copied"
                /\ files'[j].originalFileId = files[First(Carriers(files, CurrentRule[1]))].id
          /\ Len(organizationLog') = Len(organizationLog) + Len(CurrentRule[2].items)
          /\ \A j \in (Len(organizationLog) + 1)..Len(organizationLog') :
                organizationLog'[j].type = "copy"]_vars

C12_Witness ==
    /\ outcome.organizeFiles = "returned"
    /\ Len(before) = 1
    /\ Len(files) = 3
    /\ files[1] = before[1]
    /\ files[2].status = "copied" /\ files[3].status = "copied"
    /\ files[2].originalFileId = files[1].id
    /\ files[2].currentPath = "core/C.kt"
    /\ Len(organizationLog) = 2

(***************************************************************************)
(* The direct calls of splitFileContent and mergeFileContents.             *)
(***************************************************************************)
\* a by_lines split of a source with linesPerFile = n >= 1 has returned
SplitByLinesReturned ==
    /\ contentCall.method = "splitFileContent"
    /\ contentCall.splitConfig.strategy = "by_lines"
    /\ contentCall.splitConfig.linesPerFile >= 1
    /\ contentResult.status = "returned"

\* the number of lines of a content: one more than its newlines
LinesIn(content) == 1 + Cardinality({i \in 1..Len(content) : SubSeq(content, i, i) = "\n"})

\* the name without its last suffix
BaseName(name) ==
    IF \E d \in 1..(Len(name) - 1) : SubSeq(name, d, d) = "."
    THEN SubSeq(name, 1, Last({d \in 1..(Len(name) - 1) : SubSeq(name, d, d) = "."}) - 1)
    ELSE name

\* the records are K parts of a source of L lines cut every n lines
PartsOf(parts, source, L, n, K) ==
    /\ Len(parts) = K
    /\ \A k \in 1..K :
          /\ parts[k].fileName = BaseName(source.fileName) \o "_part" \o ToString(k) \o "."
                                 \o source.extension
          /\ parts[k].lines = IF k < K THEN n ELSE L - n * (K - 1)
          /\ LinesIn(parts[k].content) = parts[k].lines
    /\ Join([k \in 1..K |-> parts[k].content], "\n") = source.content

\* C13: splitting by_lines a source of L lines with linesPerFile = n gives K = ceil(L/n)
\* records, in order, named <base>_part1 to <base>_partK with the extension of the source;
\* each but the last has n lines, the last has L - n*(K-1), and the contents joined with
\* newlines are the content of the source
C13_SplitByLinesParts ==
    SplitByLinesReturned =>
        PartsOf(contentResult.files, contentCall.sourceFiles[1],
                LinesIn(contentCall.sourceFiles[1].content),
                contentCall.splitConfig.linesPerFile,
                (LinesIn(contentCall.sourceFiles[1].content)
                    + contentCall.splitConfig.linesPerFile - 1)
                   \div contentCall.splitConfig.linesPerFile)

C13_Witness ==
    /\ SplitByLinesReturned
    /\ contentCall.splitConfig.linesPerFile = 2
    /\ contentCall.sourceFiles[1].fileName = "Main.test.kt"
    /\ LinesIn(contentCall.sourceFiles[1].content) = 5
    /\ [k \in 1..Len(contentResult.files) |-> contentResult.files[k].lines] = <<2, 2, 1>>
    /\ contentResult.files[3].fileName = "Main.test_part3.kt"

\* a package_merge of two or more sources has returned
PackageMergeReturned ==
    /\ contentCall.method = "mergeFileContents"
    /\ contentCall.strategy = "package_merge"
    /\ Len(contentCall.sourceFiles) >= 2
    /\ contentResult.status = "returned"

\* the import lines of a content: its lines that start with the word import
ImportLinesOf(content) == {l \in Range(Split(content, "\n")) : StartsWith(l, "import ")}

\* the import lines that two or more of the sources contain
SharedImportLines(sources) ==
    {l \in UNION {ImportLinesOf(sources[k].content) : k \in 1..Len(sources)} :
        \E j, k \in 1..Len(sources) :
            j # k /\ l \in ImportLinesOf(sources[j].content) /\ l \in ImportLinesOf(sources[k].content)}

TimesIn(content, line) ==
    Cardinality({k \in 1..Len(Split(content, "\n")) : Split(content, "\n")[k] = line})

\* C14: in the content that package_merge makes of two or more sources, an import line
\* that two or more of the sources contain appears exactly once
C14_SharedImportAppearsOnce ==
    PackageMergeReturned =>
        \A l \in SharedImportLines(contentCall.sourceFiles) : TimesIn(contentResult.content, l) = 1

\* C14 for import lines that end with a semicolon, in sources all of whose import lines do
C14_SemicolonImportsOnce ==
    (PackageMergeReturned
       /\ \A k \in 1..Len(contentCall.sourceFiles) :
             \A l \in ImportLinesOf(contentCall.sourceFiles[k].content) : EndsWith(l, ";")) =>
        \A l \in SharedImportLines(contentCall.sourceFiles) : TimesIn(contentResult.content, l) = 1

\* the call is at a splitFiles rule with strategy by_function whose source some record carries
SplittingByFunction ==
    /\ AtOperation("splitFiles")
    /\ Field(CurrentRule[2], "strategy") = "by_function"
    /\ Carriers(files, CurrentRule[1]) # {}

\* C15: a splitFiles rule with strategy by_function fails fast: the step ends the
\* organizeFiles call with an exception and is not carried out as a split
C15_ByFunctionFailsFast ==
    [][SplittingByFunction =>
          /\ outcome'.organizeFiles = "threw"
          /\ files' = files
          /\ organizationLog' = organizationLog]_vars

\* the call is at a rule that names no record of the working set: a merge rule none of
\* whose sources some record carries, a rule of another type whose key no record carries
UnresolvedRule ==
    /\ run.active /\ run.op <= Len(Operations)
    /\ IF Operations[run.op] = "mergeFiles"
       THEN /\ CurrentRule[2].kind = "array"
            /\ \A k \in 1..Len(CurrentRule[2].items) : Carriers(files, CurrentRule[2].items[k]) = {}
       ELSE Carriers(files, CurrentRule[1]) = {}

\* the rule is skipped: no record changes, none is added, nothing is logged as an
\* operation, and the call goes on
RuleSkipped ==
    /\ files' = files
    /\ organizationLog' = organizationLog
    /\ run'.active
    /\ outcome'.organizeFiles = "running"

\* C16: a rule of any operation type that names no record of the working set is skipped,
\* the pipeline goes on, and the unresolved reference is recorded as a warning
C16_UnresolvedRuleSkippedWithWarning ==
    [][UnresolvedRule => (RuleSkipped /\ Len(consoleWarnings') = Len(consoleWarnings) + 1)]_vars

\* C16 without the warning: a rule that names no record of the working set is skipped
\* and the pipeline goes on
C16_UnresolvedRuleSkipped ==
    [][UnresolvedRule => RuleSkipped]_vars

\* C16 for fileRenames alone, the one operation type that warns
C16_UnresolvedRenameWarns ==
    [][(UnresolvedRule /\ Operations[run.op] = "fileRenames") =>
          consoleWarnings' = Append(consoleWarnings, "File not found for rename: " \o CurrentRule[1])]_vars

\* every record of the working set is, after the step, at the position it had
RecordsKept ==
    /\ Len(files') >= Len(files)
    /\ \A k \in 1..Len(files) : files'[k].id = files[k].id

\* C17: no step of an organizeFiles call removes a record of the working set or moves it:
\* the records there before the call are there after it, in the same relative order
C17_NoRecordRemoved ==
    [][(run.active \/ run'.active) => RecordsKept]_vars

\* a non-dry call has returned that changed a record it found and appended records after
\* the ones it found
C17_Witness ==
    /\ outcome.organizeFiles = "returned" /\ ~run.active
    /\ Len(before) = MaxFiles /\ Len(files) > Len(before)
    /\ \A k \in 1..Len(before) : files[k].id = before[k].id
    /\ \E k \in 1..Len(before) : files[k] # before[k]

\* the step is a rule of fileRenames or extensionChanges that gave record k a new fileName
NameChanged(k) ==
    /\ run.active /\ run.op <= Len(Operations)
    /\ Operations[run.op] \in {"fileRenames", "extensionChanges"}
    /\ k <= Len(files')
    /\ files'[k].fileName # files[k].fileName

\* C18: after a rename or an extension change gave a record a new fileName, the record's
\* extension is the lower-cased suffix of that fileName
C18_ExtensionFollowsFileName ==
    [][\A k \in 1..Len(files) :
          NameChanged(k) => files'[k].extension = GetFileExtension(files'[k].fileName)]_vars

\* the step gave record k a content: it changed the content of a record of the working
\* set, or appended a merged record, a split result, or a copy whose content is not its
\* source's
ContentChanged(k) ==
    /\ run.active /\ run.op <= Len(Operations)
    /\ IF k <= Len(files) THEN files'[k].content # files[k].content
       ELSE \/ files'[k].isMerged
            \/ files'[k].isSplit
            \/ /\ files'[k].isCopy
               /\ \E i \in 1..Len(files) : /\ files[i].id = files'[k].originalFileId
                                           /\ files[i].content # files'[k].content

SizeAndLinesDerived(file) ==
    /\ file.size = BlobSize(file.content)
    /\ file.lines = LineCount(file.content)

\* C19: after a content update, the modifications of a copy, a merge or a split gave a
\* record its content, the record's size and lines are the ones of that content
C19_SizeAndLinesFollowContent ==
    [][\A k \in 1..Len(files') :
          ContentChanged(k) => SizeAndLinesDerived(files'[k])]_vars

\* C19 for the records a merge or a split appends, and for the size after a content update
C19_MergedSplitAndUpdatedSize ==
    [][\A k \in 1..Len(files') :
          ContentChanged(k) =>
              /\ (files'[k].isMerged \/ files'[k].isSplit) => SizeAndLinesDerived(files'[k])
              /\ Operations[run.op] = "contentUpdates" => files'[k].size = BlobSize(files'[k].content)]_vars

\* the step is the end of an organizeFiles call that went through all its operations
CallEnds == run.active /\ run.op = Finished /\ ~run'.active

\* the call leaves the validation of the working set it ends with, and the report it
\* wrote, if it wrote one, carries that validation
ValidationOfThisCall ==
    /\ validationResults' = ValidateOrganizationResults(files')
    /\ organizationReport' \in
           {organizationReport,
            GenerateOrganizationReport(files', organizationLog',
                                       ValidateOrganizationResults(files'))}

\* C20: every organizeFiles call, whatever its options, runs the post-run validation, and
\* the validation in the report of a call is the one of the working set the call ends with
C20_ValidationAlwaysRunAndReported ==
    [][CallEnds => ValidationOfThisCall]_vars

\* C20 for the calls whose validateResults option is not false
C20_ValidatedCallReportsItsWorkingSet ==
    [][(CallEnds /\ outcome'.validated) => ValidationOfThisCall]_vars

\* every entry of the log was logged by a dry run
AllDry(log) == \A k \in 1..Len(log) : log[k].dryRun

\* the last two calls that went past the check of the configuration were dry runs that
\* returned, and both started from the same working set; the configuration is the same,
\* a caller has one configuration
TwoDryRuns ==
    /\ outcome.organizeFiles = "returned" /\ ~run.active
    /\ previous.returned
    /\ previous.before = before
    /\ AllDry(previous.log) /\ AllDry(organizationLog)

\* the entry without the identifier logOperation gives it
WithoutId(entry) == [f \in DOMAIN entry \ {"id"} |-> entry[f]]

\* C21: two dry runs of the same configuration on the same working set leave the same
\* log: the same entries, in the same order, with the same field values
C21_DryRunLogRepeats ==
    TwoDryRuns => organizationLog = previous.log

\* C21 apart from the identifiers of the entries: the two logs have the same entries in
\* the same order, each with the same type, names, paths and dryRun
C21_DryRunLogRepeatsApartFromIds ==
    TwoDryRuns =>
        /\ Len(organizationLog) = Len(previous.log)
        /\ \A k \in 1..Len(organizationLog) :
              WithoutId(organizationLog[k]) = WithoutId(previous.log[k])

\* two dry runs on the same working set have each logged an operation
C21_RepeatedDryRun ==
    TwoDryRuns /\ Len(previous.log) > 0 /\ Len(organizationLog) > 0

\* the step is a loadConfig call that throws
LoadConfigFails ==
    /\ LoadConfig \/ \E raw \in MalformedConfigs : LoadConfigOf(raw)
    /\ outcome'.loadConfig = "threw"

\* the configuration organizeFiles would run with: the one a loadConfig call has loaded
\* and found valid, none otherwise
LoadedConfig(c) == IF c.isNull \/ ~c.isValid THEN <<>> ELSE <<c.data>>

\* C22: a loadConfig call that fails applies nothing: the Organizer keeps the
\* configuration loaded before the call, its working set and its log
C22_FailedLoadConfigChangesNothing ==
    [][LoadConfigFails => /\ LoadedConfig(config') = LoadedConfig(config)
                          /\ files' = files
                          /\ organizationLog' = organizationLog]_vars

\* C22 for the working set and the log alone
C22_FailedLoadConfigKeepsFilesAndLog ==
    [][LoadConfigFails => (files' = files /\ organizationLog' = organizationLog)]_vars

RECURSIVE TotalSize(_)
TotalSize(records) ==
    IF Len(records) = 0 THEN 0 ELSE records[1].size + TotalSize(SubSeq(records, 2, Len(records)))

\* the records of a list that updateStats counts: all but the manifest
CountedRecords(records) == SelectSeq(records, LAMBDA r : ~IsManifest(r))

\* the Extractor holds what its last call made and nothing else: nothing after a call that
\* threw, the records the call returned and their counts after a call that returned
HoldsLastCallOnly ==
    IF extractOutcome.status = "threw"
    THEN /\ extractedFiles = <<>>
         /\ stats.totalFiles = 0 /\ stats.totalSize = 0 /\ stats.byLanguage = <<>>
    ELSE /\ extractedFiles = extractOutcome.files
         /\ stats.totalFiles = Len(CountedRecords(extractedFiles))
         /\ stats.totalSize = TotalSize(CountedRecords(extractedFiles))

\* C23: after any extractFiles call, a call that fails on empty input or on missing
\* headers included, the statistics and the list of extracted files hold nothing that an
\* earlier call counted
C23_NothingLeftOfEarlierCall ==
    extractions > 0 => HoldsLastCallOnly

\* C23 for the calls that get past the check of the empty input
C23_NothingLeftAfterReset ==
    (extractions > 0 /\ extractOutcome.error # EmptyInputError) => HoldsLastCallOnly

\* a suspended call is between two of its operations: it has applied a section and its
\* configuration has another one for it
BetweenOperations(call) == NextRule(config.data, call.op, 1)[1] # Finished

\* the step is one of an organizeFiles call: the call is made, or a suspended call resumes
StepOfCall == runs' = runs + 1 \/ (Len(pending) > 0 /\ pending' # pending)

DestinationsAsPaths ==
    /\ CopyingRule
    /\ \A k \in 1..Len(CurrentRule[2].items) :
          Field(CurrentRule[2].items[k], "kind") = "string"

\* C25: a copyToMultipleLocations rule that lists its destinations as path strings is
\* accepted, and a non-dry run creates one copy per listed path, whose currentPath is
\* that path
C25_CopiesAtListedPaths ==
    [][DestinationsAsPaths =>
          /\ config.isValid
          /\ Len(files') = Len(files) + Len(CurrentRule[2].items)
          /\ \A k \in 1..Len(CurrentRule[2].items) :
                files'[Len(files) + k].currentPath = CurrentRule[2].items[k].value]_vars

\* C25 without the paths: the rule is accepted and makes one copy per listed path
C25_OneCopyPerListedPath ==
    [][DestinationsAsPaths =>
          /\ config.isValid
          /\ Len(files') = Len(files) + Len(CurrentRule[2].items)
          /\ \A k \in 1..Len(CurrentRule[2].items) :
                files'[Len(files) + k].status = "copied"]_vars

\* what the copies of such a rule get as their path: the name of the source
C25_CopiesAtSourceName ==
    [][DestinationsAsPaths =>
          \A k \in 1..Len(CurrentRule[2].items) :
             files'[Len(files) + k].currentPath = CurrentRule[1]]_vars

\* generateProject runs the Android Project workflow on extracted files that include a
\* Kotlin or a Java file, and the step about to be taken ends the run
AndroidRunEnds ==
    /\ app.workflow = "androidProject"
    /\ app.step > 0
    /\ HasExtension(app.extractedFiles, {"kt", "java"})
    /\ app'.step = 0

GeneratedNames(project) == [k \in 1..Len(project.files) |-> project.files[k].name]

\* C26: the Android Project workflow runs extract, validate_android, generate_android and
\* package in that order and, on extracted files that include a Kotlin or a Java file,
\* reaches its end: the archive holds the generated project and generateProject reports
\* success
C26_AndroidWorkflowPackagesProject ==
    [][AndroidRunEnds =>
          /\ app'.steps = Workflows.androidProject
          /\ ~app'.packagedProject.isNull
          /\ app'.packagedProject.names = GeneratedNames(app'.generatedProject)
          /\ app'.notification = [type |-> "success",
                                  message |-> "Progetto generato con successo!"]]_vars

\* C26, the order of the steps: the run ends at its package step, after extract,
\* validate_android and generate_android in that order
C26_AndroidStepsInOrder ==
    [][AndroidRunEnds =>
          /\ app.step = 4
          /\ app.steps = <<"extract", "validate_android", "generate_android">>
          /\ app'.generatedProject = AndroidProject]_vars

\* what the package step does at the end of such a run: it takes the uploaded or organized
\* files, never the generated project, and fails when there are none
C26_AndroidPackageTakesOrganizedFiles ==
    [][AndroidRunEnds =>
          IF Len(app.organizedFiles) = 0
          THEN /\ app'.notification =
                     [type |-> "error",
                      message |-> "Errore nella generazione: Nessun file da impacchettare"]
               /\ app'.packagedProject.isNull
          ELSE /\ app'.notification.type = "success"
               /\ app'.packagedProject = ArchiveOf(app.organizedFiles)]_vars

\* C27: after an organizeFiles call, which only a configuration that the validator
\* accepted gets to make, no record of the working set has a currentPath that contains
\* '..' or starts with '/'
C27_NoUnsafeCurrentPath ==
    outcome.organizeFiles = "returned" =>
        \A i \in 1..Len(files) : ~UnsafePath(files[i].currentPath)

\* C27 for the one path the validator looks at: the folder that a folder mapping gave to
\* a record is never unsafe
C27_MappedFoldersSafe ==
    outcome.organizeFiles = "returned" =>
        \A i \in 1..Len(files) :
           (~files[i].isCopy /\ files[i].folderPath # Undefined)
               => ~UnsafePath(files[i].folderPath)

\* a call has returned and left a record that a folder mapping moved
C27_MappedRecord ==
    /\ outcome.organizeFiles = "returned"
    /\ \E i \in 1..Len(files) : ~files[i].isCopy /\ files[i].folderPath = "src"

\* the record that the rule about to be applied names, 0 when there is none
NamedRecord == FindFileByName(files, CurrentRule[1])

\* a non-dry extensionChanges rule is about to be applied to a record that a fileRenames
\* rule of the same call has renamed
ExtensionChangeAfterRename ==
    /\ Applying("extensionChanges")
    /\ NamedRecord # 0
    /\ files[NamedRecord].status = "renamed"

WithoutSuffix(name) == Substring(name, 0, LastIndexOf(name, "."))

\* C28: an extensionChanges rule rebuilds the suffix of the record's own fileName: a
\* record renamed earlier in the call gets its renamed base name followed by the new
\* extension
C28_ExtensionChangeKeepsRename ==
    [][ExtensionChangeAfterRename =>
          files'[NamedRecord].fileName
              = WithoutSuffix(files[NamedRecord].fileName) \o "." \o CurrentRule[2]]_vars

\* what the rule gives the record: the base name of the key of the rule, whatever the
\* record is called by then
C28_ExtensionChangeFromRuleKey ==
    [][(Applying("extensionChanges") /\ NamedRecord # 0) =>
          files'[NamedRecord].fileName
              = WithoutSuffix(CurrentRule[1]) \o "." \o CurrentRule[2]]_vars

\* C29: after any sequence of loadFiles and organizeFiles calls the records of the working
\* set have pairwise distinct ids, the records made by copy, merge and split included
C29_IdsPairwiseDistinct ==
    \A i, j \in 1..Len(files) : i # j => files[i].id # files[j].id

\* C29, the other half: a step of an organizeFiles call leaves every record its id
C29_IdNeverChanges ==
    [][run.active => \A i \in 1..Len(files) : files'[i].id = files[i].id]_vars

\* C29 for the records that loadFiles made and those that merge and split added
C29_IdsDistinctApartFromCopies ==
    \A i, j \in 1..Len(files) :
       (i # j /\ ~files[i].isCopy /\ ~files[j].isCopy) => files[i].id # files[j].id

IsPrefix(s, t) == Len(s) <= Len(t) /\ SubSeq(t, 1, Len(s)) = s

\* C30: the operations list of a record is append-only across loadFiles, organizeFiles
\* and the actions of the application that reload the working set: the entries a record
\* has are never removed or replaced
C30_OperationsAppendOnly ==
    [][\A i \in 1..Len(files), j \in 1..Len(files') :
          files'[j].id = files[i].id => IsPrefix(files[i].operations, files'[j].operations)]_vars

\* C30 within a call: a rule of organizeFiles that changes a record appends to its
\* operations, one entry each time the rule touches the record, and leaves the entries
\* it had
C30_TransformationAppends ==
    [][run.active =>
          \A i \in 1..Len(files) :
             files'[i] # files[i] =>
                 /\ Len(files'[i].operations) > Len(files[i].operations)
                 /\ IsPrefix(files[i].operations, files'[i].operations)]_vars

\* the ids of the records of a working set
IdsOf(fs) == {fs[k].id : k \in 1..Len(fs)}

\* the split results of record i: the records whose sourceFileId is its id
ResultsOf(fs, i) ==
    {j \in 1..Len(fs) : fs[j].status = "split_result" /\ fs[j].sourceFileId = fs[i].id}

\* record i has a split_into entry that names some results and nothing but results of i
NamesItsResults(fs, i) ==
    \E k \in 1..Len(fs[i].operations) :
       /\ fs[i].operations[k].type = "split_into"
       /\ Len(fs[i].operations[k].splitFiles) > 0
       /\ Range(fs[i].operations[k].splitFiles) = {fs[j].fileName : j \in ResultsOf(fs, i)}

\* no sourceFileId, sourceFileIds or originalFileId holds an id that no record has
LinksResolve(fs) ==
    \A i \in 1..Len(fs) :
       /\ fs[i].sourceFileId # Undefined => fs[i].sourceFileId \in IdsOf(fs)
       /\ fs[i].originalFileId # Undefined => fs[i].originalFileId \in IdsOf(fs)
       /\ Range(fs[i].sourceFileIds) \subseteq IdsOf(fs)

\* C31: in every state that organizeFiles reaches, each split_source record has at least
\* one split_result record whose sourceFileId is its id and a split_into entry naming
\* those results, and every provenance link is the id of a record of the working set
C31_SplitSourcesHaveResults ==
    /\ \A i \in 1..Len(files) :
          files[i].status = "split_source" =>
              (ResultsOf(files, i) # {} /\ NamesItsResults(files, i))
    /\ LinksResolve(files)

\* C31, the links alone
C31_LinksNeverDangle == LinksResolve(files)

\* C31 for the sources whose split made a part
C31_SplitSourceNamesWhatItMade ==
    \A i \in 1..Len(files) :
       (files[i].status = "split_source" /\ ResultsOf(files, i) # {})
           => NamesItsResults(files, i)

\* the records that are not kept as the source of a merge or of a split
LiveRecords(fs) == {i \in 1..Len(fs) : fs[i].status \notin {"merged_source", "split_source"}}
FileEntries(tree) == {node \in tree : node.isFile}
PathsDistinct(fs, records) ==
    \A i, j \in records : i # j => fs[i].currentPath # fs[j].currentPath

\* the tree has a file entry at the path of every live record, none elsewhere, and as many
\* as there are live records when their paths are pairwise distinct
ShowsLiveRecords(tree, fs) ==
    /\ \A i \in LiveRecords(fs) :
          \E node \in FileEntries(tree) : node.path = Split(fs[i].currentPath, "/")
    /\ \A node \in FileEntries(tree) :
          \E i \in LiveRecords(fs) : node.path = Split(fs[i].currentPath, "/")
    /\ PathsDistinct(fs, LiveRecords(fs))
          => Cardinality(FileEntries(tree)) = Cardinality(LiveRecords(fs))

\* C32: getFinalProjectStructure has an entry at the currentPath of every record that is
\* neither merged_source nor split_source, no entry that comes from such a record, and as
\* many file entries as live records when their currentPaths are pairwise distinct
C32_StructureShowsLiveRecords ==
    ShowsLiveRecords(GetFinalProjectStructure(files), files)

\* no live record's path runs through the path of another as through a folder
NoPathThroughAFile(fs) ==
    \A i, j \in LiveRecords(fs) :
       i # j => ~IsPathPrefix(Split(fs[i].currentPath, "/"), Split(fs[j].currentPath, "/"))

\* C32, where it holds: the tree shows the live records whenever none of their paths leads
\* through the path of another
C32_StructureShowsUnnestedRecords ==
    NoPathThroughAFile(files) => ShowsLiveRecords(GetFinalProjectStructure(files), files)

\* C32: the tree never has an entry at the path of a merged_source or split_source record
\* unless a live record has that path too
C32_NoEntryFromSources ==
    \A node \in FileEntries(GetFinalProjectStructure(files)) :
       \E i \in LiveRecords(files) : node.path = Split(files[i].currentPath, "/")

\* every entry of the log was logged by a run that was not a dry run
AllReal(log) == \A k \in 1..Len(log) : ~log[k].dryRun

\* two organizeFiles calls have returned, the second made when the first had returned and
\* nothing else called in between
TwoCallsInARow ==
    /\ outcome.organizeFiles = "returned" /\ ~run.active
    /\ previous.returned
    /\ runs = 2

TwoRealRuns == TwoCallsInARow /\ AllReal(previous.log) /\ AllReal(organizationLog)

\* C33: organizeFiles run again with the same configuration on the same Organizer, nothing
\* changed in between, leaves the log of the first run: the same entries in the same
\* order, each with the same type and the same operation fields
C33_RerunReproducesLog ==
    TwoRealRuns =>
        /\ Len(organizationLog) = Len(previous.log)
        /\ \A k \in 1..Len(organizationLog) :
              WithoutId(organizationLog[k]) = WithoutId(previous.log[k])

\* C33 for a dry run made again: its log is the one of the first but for the identifiers
C33_DryRerunReproducesLog ==
    (TwoCallsInARow /\ AllDry(previous.log) /\ AllDry(organizationLog)) =>
        /\ Len(organizationLog) = Len(previous.log)
        /\ \A k \in 1..Len(organizationLog) :
              WithoutId(organizationLog[k]) = WithoutId(previous.log[k])

\* a step of an organizeFiles call that got past the check of its configuration, which
\* loadConfig had validated and accepted
AcceptedCallStep == run.active /\ ~config.isNull /\ config.isValid

\* C34: organizeFiles with a configuration that validateAndNormalizeConfig accepts never
\* ends with an exception, whatever the working set: no step of such a call throws
C34_AcceptedConfigNeverThrows ==
    [][AcceptedCallStep => outcome'.organizeFiles # "threw"]_vars

\* C34 for the steps that are not over a mergeFiles entry whose value is not an array
C34_OnlyNonArrayMergeThrows ==
    [][(AcceptedCallStep /\ (AtOperation("mergeFiles") => CurrentRule[2].kind = "array"))
          => outcome'.organizeFiles # "threw"]_vars

\* the working set as loadFiles made it, with pairwise distinct file names
FreshWithDistinctNames(fs) ==
    /\ \A i \in 1..Len(fs) :
          /\ fs[i].operations = <<>>
          /\ fs[i].originalPath = fs[i].fileName /\ fs[i].currentPath = fs[i].fileName
    /\ \A i, j \in 1..Len(fs) : i # j => fs[i].fileName # fs[j].fileName

\* the call is at a rule whose key findFileByName is to resolve
AtKeyedRule ==
    /\ run.active /\ run.op <= Len(Operations)
    /\ Operations[run.op] # "mergeFiles"
    /\ TypeofObject(CurrentSection)

\* C35: in a call on a working set with pairwise distinct file names, a key that resolves
\* is carried by exactly one record, as fileName, originalPath or currentPath
C35_ResolvedKeyHasOneCarrier ==
    (AtKeyedRule /\ FreshWithDistinctNames(before) /\ Carriers(files, CurrentRule[1]) # {})
        => Cardinality(Carriers(files, CurrentRule[1])) = 1

\* C35 for the record acted on: a rule changes no record but one that carries its key
C35_RuleActsOnACarrier ==
    [][(AtKeyedRule /\ Operations[run.op] # "splitFiles")
          => \A i \in 1..Len(files) :
                files'[i] # files[i] => i \in Carriers(files, CurrentRule[1])]_vars

\* a dry run and then a run that is not one, of the same configuration, both from the
\* same working set
DryRunThenRealRun ==
    /\ TwoCallsInARow
    /\ previous.before = before
    /\ AllDry(previous.log) /\ AllReal(organizationLog)

\* the entry without its identifier and its dryRun flag
Previewed(entry) == [f \in DOMAIN entry \ {"id", "dryRun"} |-> entry[f]]

\* C36: the log of a dry run has the entries of the log of the run that is not dry, in the
\* same order, each with the same type and the same operation fields
C36_DryRunPreviewsRealRun ==
    DryRunThenRealRun =>
        /\ Len(organizationLog) = Len(previous.log)
        /\ \A k \in 1..Len(organizationLog) :
              Previewed(organizationLog[k]) = Previewed(previous.log[k])

\* C36 for a configuration of one section: the dry run logs what the run logs
C36_DryRunPreviewsOneSection ==
    (DryRunThenRealRun /\ Len(config.data) = 1) =>
        /\ Len(organizationLog) = Len(previous.log)
        /\ \A k \in 1..Len(organizationLog) :
              Previewed(organizationLog[k]) = Previewed(previous.log[k])

\* a workflow of generateProject is running: it is at one of its steps
WorkflowRunning == app.step > 0

\* C38: while a workflow of generateProject runs, from its start until its last step has
\* finished or a step has failed, state.isProcessing is true
C38_ProcessingWhileWorkflowRuns ==
    WorkflowRunning => app.isProcessing

\* C38 once the workflow has ended: whenever no workflow runs, isProcessing is false
C38_NotProcessingWhenIdle ==
    ~WorkflowRunning => ~app.isProcessing

\* C38 up to a nested extractCode: a running workflow that has not finished a step yet,
\* or runs where extractFiles was never called, has isProcessing true
C38_ProcessingUntilNestedExtraction ==
    (WorkflowRunning /\ (extractions = 0 \/ Len(app.steps) = 0)) => app.isProcessing

\* the step is the organize step of a workflow, with a configuration loaded and files to
\* organize, and the Organizer's organizeFiles returns
OrganizeStepRuns ==
    /\ app.step > 0
    /\ Workflows[app.workflow][app.step] = "organize"
    /\ app.projectConfig.kind # "null"
    /\ Len(FilesToOrganize(app)) > 0
    /\ outcome'.organizeFiles = "returned"

\* the working set is made of the given files: the same ids and names, in the same order
MadeOf(fs, given) ==
    /\ Len(fs) = Len(given)
    /\ \A k \in 1..Len(fs) : fs[k].id = given[k].id /\ fs[k].originalPath = given[k].fileName

\* C39: an organize run of the application starts from the application's current files,
\* the extracted ones if there are any and the uploaded or organized ones otherwise
C39_OrganizeRunsOnCurrentFiles ==
    [][OrganizeStepRuns => MadeOf(before', FilesToOrganize(app))]_vars

\* C39 for an Organizer that holds no file when the step begins
C39_EmptyOrganizerTakesCurrentFiles ==
    [][(OrganizeStepRuns /\ Len(files) = 0) => MadeOf(before', FilesToOrganize(app))]_vars

\* C39 without an extraction: the files of the last upload are the ones organized
C39_UploadedFilesAreOrganized ==
    [][(OrganizeStepRuns /\ Len(app.extractedFiles) = 0)
          => MadeOf(before', FilesToOrganize(app))]_vars

\* the step is the download step of a workflow whose organize step has organized the
\* files: the archive is built from state.organizedFiles
DownloadsOrganized ==
    /\ app.step > 0
    /\ Workflows[app.workflow][app.step] = "download"
    /\ "organize" \in Range(app.steps)
    /\ outcome.organizeFiles = "returned"
    /\ ~app'.downloaded.isNull

\* the names under which the archive has an entry
EntriesOf(archive) == Range(archive.names)

\* the archive has an entry at the currentPath of every live record, no entry but those,
\* and as many entries as live records when their currentPaths are pairwise distinct
HoldsLiveRecords(archive, fs) ==
    /\ \A i \in LiveRecords(fs) : fs[i].currentPath \in EntriesOf(archive)
    /\ \A name \in EntriesOf(archive) : \E i \in LiveRecords(fs) : fs[i].currentPath = name
    /\ PathsDistinct(fs, LiveRecords(fs))
          => Cardinality(EntriesOf(archive)) = Cardinality(LiveRecords(fs))

\* C37: the archive built for download from an organized working set has one entry for
\* each live record, at the currentPath of the record, and none for a merged_source or
\* split_source record
C37_ArchiveHoldsLiveRecordsAtTheirPaths ==
    [][DownloadsOrganized => HoldsLiveRecords(app'.downloaded, app.organizedFiles)]_vars

\* C37 as the archive is built: it has an entry under the fileName of every record of the
\* working set, sources of merges and splits included, and no other entry
C37_ArchiveHoldsEveryRecordByName ==
    [][DownloadsOrganized =>
          EntriesOf(app'.downloaded)
              = {app.organizedFiles[i].fileName : i \in 1..Len(app.organizedFiles)}]_vars
====
